---- MODULE Spec2Model ----
(***************************************************************************)
(* A model of alphagenome_client.py: the AlphaGenomeClient wrapper around   *)
(* the external AlphaGenome service client, and the command-line main.      *)
(*                                                                          *)
(* Python values are tagged records: [t |-> "none"], [t |-> "str", v |-> s] *)
(* with s a sequence of one-character strings, [t |-> "int", v |-> n],      *)
(* [t |-> "list", v |-> <<...>>].  A dict is a function from its keys.      *)
(* An envelope is a record; DOMAIN e is the set of its keys.                *)
(***************************************************************************)
EXTENDS Integers, Sequences, FiniteSets, TLC

VARIABLES
    op,        \* the AlphaGenomeClient method that has just returned, or "none"
    args,      \* the arguments of that invocation
    env,       \* the envelope it returned
    extCalls,  \* the calls it made on self.client, in order
    parsed,    \* the strings it handed to the library parser Variant.from_str
    ncalls,    \* number of calls made on self.client since construction
    memo,      \* a remembered earlier utility invocation [op, args, env]
    library,   \* how the genome library behaves: which variant strings
               \* Variant.from_str accepts, whether constructors validate
    client,    \* "created" once AlphaGenomeClient.__init__ has returned
    mpc,       \* where a run of main stands; "library" when there is no run
    argv,      \* the namespace parse_args returned
    raised,    \* the exception on its way to main's except-clause
    stdout,    \* the JSON documents printed so far
    exitStatus \* the status main exited with, or "running"

clientVars == <<op, args, env, extCalls, parsed, ncalls, memo, library, client>>

mainVars == <<mpc, argv, raised, stdout, exitStatus>>

vars == <<op, args, env, extCalls, parsed, ncalls, memo, library, client,
          mpc, argv, raised, stdout, exitStatus>>

----------------------------------------------------------------------------
(* Bounds of the model.                                                     *)

\* longest DNA sequence argument enumerated
MaxSeqLen == 2
\* calls on self.client after which the model stops invoking operations
MaxCalls == 2
\* longest list argument (sequences, intervals, variants) and longest response list
MaxBatch == 2
\* longest variant string enumerated when parse_variant_string is examined alone
MaxParseLen == 7
\* largest coordinate (start, end, position) enumerated when the utilities on
\* intervals and variants are examined alone
MaxCoord == 3

----------------------------------------------------------------------------
(* Python values.                                                           *)

PyNone == [t |-> "none"]
PyStr(s) == [t |-> "str", v |-> s]
PyInt(n) == [t |-> "int", v |-> n]
PyList(l) == [t |-> "list", v |-> l]

\* a short string kept whole: a chromosome, an allele, a gene symbol
PyName(s) == [t |-> "name", s |-> s]

\* a command-line argument holding JSON text: empty, not JSON, or the text of v
PyJson(text, v) == [t |-> "json", text |-> text, v |-> v]

\* bool(x)
Truthy(x) ==
    CASE x.t = "none" -> FALSE
      [] x.t = "int" -> x.v # 0
      [] x.t = "name" -> x.s # ""
      [] x.t = "json" -> x.text # "empty"
      [] OTHER -> Len(x.v) > 0

\* all strings over alphabet of length at most n
StringsUpTo(alphabet, n) == UNION {[1..k -> alphabet] : k \in 0..n}

\* the characters of a string, set(s)
Chars(s) == {s[i] : i \in DOMAIN s}

\* str.upper() on one character of the model's alphabets; "X" and "x" stand for
\* any letter outside the DNA alphabet
UpperChar(c) ==
    CASE c = "a" -> "A"
      [] c = "t" -> "T"
      [] c = "g" -> "G"
      [] c = "c" -> "C"
      [] c = "n" -> "N"
      [] c = "x" -> "X"
      [] OTHER -> c

\* str.upper()
Upper(s) == [i \in DOMAIN s |-> UpperChar(s[i])]

\* str.lower() on one character
LowerChar(c) ==
    CASE c = "A" -> "a"
      [] c = "T" -> "t"
      [] c = "G" -> "g"
      [] c = "C" -> "c"
      [] c = "N" -> "n"
      [] c = "X" -> "x"
      [] OTHER -> c

\* valid_chars = set('ATGCN')
valid_chars == {"A", "T", "G", "C", "N"}

----------------------------------------------------------------------------
(* Envelopes and exceptions.                                                *)

\* the dict every except-clause builds: success False, str(e), type(e).__name__
Failure(msg, cls) == [success |-> FALSE, error |-> msg, type |-> cls]

\* what one invocation produced: the envelope, the calls made on self.client (each
\* with its outcome: "ok", or the class of the exception it raised) and the
\* strings handed to the library parser Variant.from_str
Ret(e, calls) == [env |-> e, calls |-> calls, parsed |-> <<>>]

\* the same for an invocation that consulted the library parser
RetParsed(e, consulted) == [env |-> e, calls |-> <<>>, parsed |-> consulted]

\* str(e) of an exception raised by the external service client
ExtMsg == "external call failed"

\* exception classes the external service client is modelled to raise
ExtErrors == {"RpcError", "ValueError"}

----------------------------------------------------------------------------
(* The external service's responses.  A response object is a function from  *)
(* attribute names to what reading the attribute does: "absent" (hasattr is *)
(* False), "none" (the value is None), "data", or "raises" (the property    *)
(* raises an exception other than AttributeError).                          *)

OutputAttrs == <<"atac", "cage", "dnase", "histone_marks", "gene_expression">>

AttrStates == {"absent", "none", "data", "raises"}

\* representative response objects
Outputs ==
    { [a \in Chars(OutputAttrs) |-> "data"],
      [a \in Chars(OutputAttrs) |-> "absent"],
      [a \in Chars(OutputAttrs) |-> IF a = "atac" THEN "data" ELSE "none"],
      [a \in Chars(OutputAttrs) |-> IF a = "cage" THEN "raises" ELSE "data"] }

\* the keys of attrs that hasattr(..) and .. is not None selects, in order
RECURSIVE Available(_, _)
Available(output, attrs) ==
    IF attrs = <<>> THEN <<>>
    ELSE (IF output[Head(attrs)] = "data" THEN <<Head(attrs)>> ELSE <<>>)
         \o Available(output, Tail(attrs))

\* whether reading the attributes in turn raises
Raises(output, attrs) == \E i \in DOMAIN attrs : output[attrs[i]] = "raises"

\* _serialize_output: the try-block result, or the dict of the except-clause
_serialize_output(output) ==
    IF Raises(output, OutputAttrs)
    THEN [error |-> "Serialization failed"]
    ELSE [type |-> "prediction_output", data |-> Chars(Available(output, OutputAttrs))]

\* _serialize_scores: a list gives one entry per score, anything else none
_serialize_scores(scores) ==
    [type |-> "variant_scores",
     scores |-> IF scores.t = "list"
                THEN [i \in 1..scores.n |->
                        [scorer_index |-> i - 1,
                         data |-> "Score data available (AnnData format)"]]
                ELSE <<>>]

VariantOutputAttrs == <<"reference", "alternate", "difference">>

\* representative variant response objects
VariantOutputs ==
    { [a \in Chars(VariantOutputAttrs) |-> "data"],
      [a \in Chars(VariantOutputAttrs) |-> IF a = "difference" THEN "raises" ELSE "data"] }

\* _serialize_variant_output
_serialize_variant_output(output) ==
    IF Raises(output, VariantOutputAttrs)
    THEN [error |-> "Variant output serialization failed"]
    ELSE [type |-> "variant_prediction_output",
          data |-> Chars(Available(output, VariantOutputAttrs))]

\* _serialize_metadata
_serialize_metadata(metadata) ==
    IF Raises(metadata, OutputAttrs)
    THEN [error |-> "Metadata serialization failed"]
    ELSE [type |-> "output_metadata",
          available_outputs |-> Available(metadata, OutputAttrs)]

\* representative score objects: a list of n AnnData objects, or one AnnData
Scores == {[t |-> "list", n |-> 0], [t |-> "list", n |-> 2], [t |-> "anndata", n |-> 0]}

----------------------------------------------------------------------------
(* Arguments shared by the prediction and scoring operations.               *)

\* an organism argument: a string, or None
Organisms == {PyName("human"), PyName("Mouse"), PyNone}

\* organism.lower() raises AttributeError on None
OrganismError == Failure("'NoneType' object has no attribute 'lower'", "AttributeError")

\* Organism.HOMO_SAPIENS if organism.lower() in [...] else Organism.HOMO_SAPIENS
organism_enum(organism) == "HOMO_SAPIENS"

\* the members of OutputType
OutputTypeNames ==
    {"ATAC", "CAGE", "CHIP_HISTONE", "CHIP_TF", "CONTACT_MAPS", "DNASE", "PROCAP",
     "RNA_SEQ", "SPLICE_JUNCTIONS", "SPLICE_SITES", "SPLICE_SITE_USAGE"}

\* ot.upper() on the output-type names of the model
NameUpper(name) ==
    CASE name = "atac" -> "ATAC"
      [] name = "cage" -> "CAGE"
      [] OTHER -> name

\* output_types arguments: None or a list of names
OutputTypeArgs ==
    {PyNone, PyList(<<>>), PyList(<<"atac">>), PyList(<<"bogus", "CAGE">>)}

RECURSIVE KnownOutputs(_)
KnownOutputs(names) ==
    IF names = <<>> THEN <<>>
    ELSE (IF NameUpper(Head(names)) \in OutputTypeNames
          THEN <<NameUpper(Head(names))>> ELSE <<>>) \o KnownOutputs(Tail(names))

\* requested_outputs: None unless output_types is a non-empty list
requested_outputs(output_types) ==
    IF Truthy(output_types) THEN PyList(KnownOutputs(output_types.v)) ELSE PyNone

\* what the service does when called: the call on self.client raises (call),
\* or it returns a response (out)
ExtOutcomes(responses) ==
    {[call |-> e, out |-> <<>>] : e \in ExtErrors}
    \cup {[call |-> "ok", out |-> o] : o \in responses}

\* str(e) of an exception raised by a library constructor
LibMsg == "invalid genomic coordinates"

\* whether the library's Interval(..) raises: a validating library refuses an
\* interval that ends before it starts
RejectsInterval(lib, interval) == lib.strict /\ interval.end < interval.start

\* whether the library's Variant(..) raises: a validating library refuses a
\* position below 1
RejectsVariant(lib, variant) == lib.strict /\ variant.position < 1

\* the arguments naming an interval: chromosome, start, end
Intervals ==
    { [chromosome |-> "chr1", start |-> 1, end |-> 2048],
      [chromosome |-> "chr2", start |-> 9, end |-> 3] }

\* the arguments naming a variant: chromosome, position, ref, alt
Variants ==
    { [chromosome |-> "chr1", position |-> 10, ref |-> "A", alt |-> "G"],
      [chromosome |-> "chr1", position |-> 0, ref |-> "A", alt |-> "G"] }

----------------------------------------------------------------------------
(* The single-item prediction and scoring operations.                       *)

\* predict_sequence without the check of the characters
predict_sequence_unvalidated(sequence, organism, output_types, ext) ==
    IF ~Truthy(sequence) \/ sequence.t # "str"
    THEN Ret(Failure("Sequence must be a non-empty string", "ValueError"), <<>>)
    ELSE IF organism = PyNone
    THEN Ret(OrganismError, <<>>)
    ELSE LET call == [method |-> "predict_sequence",
                      subject |-> Upper(sequence.v),
                      organism |-> organism_enum(organism),
                      requested_outputs |-> requested_outputs(output_types),
                      outcome |-> ext.call]
         IN IF ext.call # "ok"
            THEN Ret(Failure(ExtMsg, ext.call), <<call>>)
            ELSE Ret([success |-> TRUE,
                      result |-> _serialize_output(ext.out),
                      sequence_length |-> Len(sequence.v)], <<call>>)

predict_sequence(sequence, organism, output_types, ext) ==
    IF ~Truthy(sequence) \/ sequence.t # "str"
    THEN Ret(Failure("Sequence must be a non-empty string", "ValueError"), <<>>)
    ELSE IF ~(Chars(Upper(sequence.v)) \subseteq valid_chars)
    THEN Ret(Failure("Sequence contains invalid characters. Only A, T, G, C, N are allowed",
                     "ValueError"), <<>>)
    ELSE IF organism = PyNone
    THEN Ret(OrganismError, <<>>)
    ELSE LET call == [method |-> "predict_sequence",
                      subject |-> Upper(sequence.v),
                      organism |-> organism_enum(organism),
                      requested_outputs |-> requested_outputs(output_types),
                      outcome |-> ext.call]
         IN IF ext.call # "ok"
            THEN Ret(Failure(ExtMsg, ext.call), <<call>>)
            ELSE Ret([success |-> TRUE,
                      result |-> _serialize_output(ext.out),
                      sequence_length |-> Len(sequence.v)], <<call>>)

\* predict_interval calling the service a second time when the first call raises
predict_interval_retrying(interval, organism, output_types, ext, lib) ==
    IF RejectsInterval(lib, interval)
    THEN Ret(Failure(LibMsg, "ValueError"), <<>>)
    ELSE IF organism = PyNone
    THEN Ret(OrganismError, <<>>)
    ELSE LET call == [method |-> "predict_interval",
                      subject |-> interval,
                      organism |-> organism_enum(organism),
                      requested_outputs |-> requested_outputs(output_types),
                      outcome |-> ext.call]
         IN IF ext.call # "ok"
            THEN Ret(Failure(ExtMsg, ext.call), <<call, call>>)
            ELSE Ret([success |-> TRUE,
                      result |-> _serialize_output(ext.out),
                      interval |-> interval], <<call>>)

predict_interval(interval, organism, output_types, ext, lib) ==
    IF RejectsInterval(lib, interval)
    THEN Ret(Failure(LibMsg, "ValueError"), <<>>)
    ELSE IF organism = PyNone
    THEN Ret(OrganismError, <<>>)
    ELSE LET call == [method |-> "predict_interval",
                      subject |-> interval,
                      organism |-> organism_enum(organism),
                      requested_outputs |-> requested_outputs(output_types),
                      outcome |-> ext.call]
         IN IF ext.call # "ok"
            THEN Ret(Failure(ExtMsg, ext.call), <<call>>)
            ELSE Ret([success |-> TRUE,
                      result |-> _serialize_output(ext.out),
                      interval |-> interval], <<call>>)

predict_variant(variant, interval, organism, output_types, ext, lib) ==
    IF RejectsInterval(lib, interval) \/ RejectsVariant(lib, variant)
    THEN Ret(Failure(LibMsg, "ValueError"), <<>>)
    ELSE IF organism = PyNone
    THEN Ret(OrganismError, <<>>)
    ELSE LET call == [method |-> "predict_variant",
                      subject |-> <<interval, variant>>,
                      organism |-> organism_enum(organism),
                      requested_outputs |-> requested_outputs(output_types),
                      outcome |-> ext.call]
         IN IF ext.call # "ok"
            THEN Ret(Failure(ExtMsg, ext.call), <<call>>)
            ELSE Ret([success |-> TRUE,
                      result |-> _serialize_output(ext.out),
                      variant |-> variant,
                      interval |-> interval], <<call>>)

score_variant(variant, interval, organism, ext, lib) ==
    IF RejectsInterval(lib, interval) \/ RejectsVariant(lib, variant)
    THEN Ret(Failure(LibMsg, "ValueError"), <<>>)
    ELSE IF organism = PyNone
    THEN Ret(OrganismError, <<>>)
    ELSE LET call == [method |-> "score_variant",
                      subject |-> <<interval, variant>>,
                      organism |-> organism_enum(organism),
                      requested_outputs |-> PyNone,
                      outcome |-> ext.call]
         IN IF ext.call # "ok"
            THEN Ret(Failure(ExtMsg, ext.call), <<call>>)
            ELSE Ret([success |-> TRUE,
                      result |-> _serialize_scores(ext.out),
                      variant |-> variant,
                      interval |-> interval], <<call>>)

get_output_metadata(organism, ext) ==
    IF organism = PyNone
    THEN Ret(OrganismError, <<>>)
    ELSE LET call == [method |-> "output_metadata",
                      subject |-> <<>>,
                      organism |-> organism_enum(organism),
                      requested_outputs |-> PyNone,
                      outcome |-> ext.call]
         IN IF ext.call # "ok"
            THEN Ret(Failure(ExtMsg, ext.call), <<call>>)
            ELSE Ret([success |-> TRUE,
                      result |-> _serialize_metadata(ext.out),
                      organism |-> organism], <<call>>)

----------------------------------------------------------------------------
(* The batch operations.  A dict argument is a function from its keys; a    *)
(* missing key raises KeyError, whose str() is the quoted key.              *)

\* str(KeyError(key))
KeyMsg(key) == "'" \o key \o "'"

\* all lists over items of length at most n
ListsUpTo(items, n) == UNION {[1..k -> items] : k \in 0..n}

\* interval dicts: complete, or lacking a key
IntervalDicts == Intervals \cup {[chromosome |-> "chr1", start |-> 1]}

\* variant dicts: complete, or lacking a key
VariantDicts == Variants \cup {[chromosome |-> "chr1", position |-> 10, ref |-> "A"]}

\* the first key of keys that dict d lacks, or "" when it has them all
RECURSIVE MissingKey(_, _)
MissingKey(d, keys) ==
    IF keys = <<>> THEN ""
    ELSE IF Head(keys) \notin DOMAIN d THEN Head(keys)
    ELSE MissingKey(d, Tail(keys))

IntervalKeys == <<"chromosome", "start", "end">>

VariantKeys == <<"chromosome", "position", "ref", "alt">>

\* the elements of a sequences argument: strings, or something that is no string
SequenceItems == {PyStr(<<"A", "c">>), PyStr(<<"X">>), PyNone}

\* sequences arguments: None, or a list
SequenceLists == {PyNone} \cup {PyList(l) : l \in ListsUpTo(SequenceItems, MaxBatch)}

predict_sequences(sequences, organism, output_types, ext) ==
    IF ~Truthy(sequences) \/ sequences.t # "list"
    THEN Ret(Failure("Sequences must be a non-empty list", "ValueError"), <<>>)
    ELSE IF organism = PyNone
    THEN Ret(OrganismError, <<>>)
    ELSE IF \E i \in DOMAIN sequences.v : sequences.v[i].t # "str"
    THEN Ret(Failure("'NoneType' object has no attribute 'upper'", "AttributeError"), <<>>)
    ELSE LET call == [method |-> "predict_sequences",
                      subject |-> [i \in DOMAIN sequences.v |-> Upper(sequences.v[i].v)],
                      organism |-> organism_enum(organism),
                      requested_outputs |-> requested_outputs(output_types),
                      outcome |-> ext.call]
         IN IF ext.call # "ok"
            THEN Ret(Failure(ExtMsg, ext.call), <<call>>)
            ELSE Ret([success |-> TRUE,
                      results |-> [i \in DOMAIN ext.out |-> _serialize_output(ext.out[i])],
                      sequence_count |-> Len(sequences.v)], <<call>>)

\* the exception that building interval_objs raises, or [type |-> "none"]: each
\* dict's keys are read and then Interval(..) is built, one dict after the other
RECURSIVE BuildIntervalsError(_, _)
BuildIntervalsError(intervals, lib) ==
    IF intervals = <<>>
    THEN [type |-> "none", error |-> ""]
    ELSE IF MissingKey(Head(intervals), IntervalKeys) # ""
    THEN [type |-> "KeyError", error |-> KeyMsg(MissingKey(Head(intervals), IntervalKeys))]
    ELSE IF RejectsInterval(lib, Head(intervals))
    THEN [type |-> "ValueError", error |-> LibMsg]
    ELSE BuildIntervalsError(Tail(intervals), lib)

predict_intervals(intervals, organism, output_types, ext, lib) ==
    IF BuildIntervalsError(intervals, lib).type # "none"
    THEN Ret(Failure(BuildIntervalsError(intervals, lib).error,
                     BuildIntervalsError(intervals, lib).type), <<>>)
    ELSE IF organism = PyNone
    THEN Ret(OrganismError, <<>>)
    ELSE LET call == [method |-> "predict_intervals",
                      subject |-> intervals,
                      organism |-> organism_enum(organism),
                      requested_outputs |-> requested_outputs(output_types),
                      outcome |-> ext.call]
         IN IF ext.call # "ok"
            THEN Ret(Failure(ExtMsg, ext.call), <<call>>)
            ELSE Ret([success |-> TRUE,
                      results |-> [i \in DOMAIN ext.out |-> _serialize_output(ext.out[i])],
                      interval_count |-> Len(intervals)], <<call>>)

\* the exception that building variant_objs raises, or [type |-> "none"]
RECURSIVE BuildVariantObjsError(_, _)
BuildVariantObjsError(variants, lib) ==
    IF variants = <<>>
    THEN [type |-> "none", error |-> ""]
    ELSE IF MissingKey(Head(variants), VariantKeys) # ""
    THEN [type |-> "KeyError", error |-> KeyMsg(MissingKey(Head(variants), VariantKeys))]
    ELSE IF RejectsVariant(lib, Head(variants))
    THEN [type |-> "ValueError", error |-> LibMsg]
    ELSE BuildVariantObjsError(Tail(variants), lib)

\* the exception that building interval_obj and then variant_objs raises, or
\* [type |-> "none"]
BuildVariantsError(variants, interval, lib) ==
    IF BuildIntervalsError(<<interval>>, lib).type # "none"
    THEN BuildIntervalsError(<<interval>>, lib)
    ELSE BuildVariantObjsError(variants, lib)

predict_variants(variants, interval, organism, output_types, ext, lib) ==
    IF BuildVariantsError(variants, interval, lib).type # "none"
    THEN Ret(Failure(BuildVariantsError(variants, interval, lib).error,
                     BuildVariantsError(variants, interval, lib).type), <<>>)
    ELSE IF organism = PyNone
    THEN Ret(OrganismError, <<>>)
    ELSE LET call == [method |-> "predict_variants",
                      subject |-> <<interval, variants>>,
                      organism |-> organism_enum(organism),
                      requested_outputs |-> requested_outputs(output_types),
                      outcome |-> ext.call]
         IN IF ext.call # "ok"
            THEN Ret(Failure(ExtMsg, ext.call), <<call>>)
            ELSE Ret([success |-> TRUE,
                      results |-> [i \in DOMAIN ext.out |->
                                     _serialize_variant_output(ext.out[i])],
                      variant_count |-> Len(variants),
                      interval |-> interval], <<call>>)

score_variants(variants, interval, organism, ext, lib) ==
    IF BuildVariantsError(variants, interval, lib).type # "none"
    THEN Ret(Failure(BuildVariantsError(variants, interval, lib).error,
                     BuildVariantsError(variants, interval, lib).type), <<>>)
    ELSE IF organism = PyNone
    THEN Ret(OrganismError, <<>>)
    ELSE LET call == [method |-> "score_variants",
                      subject |-> <<interval, variants>>,
                      organism |-> organism_enum(organism),
                      requested_outputs |-> PyNone,
                      outcome |-> ext.call]
         IN IF ext.call # "ok"
            THEN Ret(Failure(ExtMsg, ext.call), <<call>>)
            ELSE Ret([success |-> TRUE,
                      results |-> [i \in DOMAIN ext.out |-> _serialize_scores(ext.out[i])],
                      variant_count |-> Len(variants),
                      interval |-> interval], <<call>>)

score_interval(interval, organism, ext, lib) ==
    IF RejectsInterval(lib, interval)
    THEN Ret(Failure(LibMsg, "ValueError"), <<>>)
    ELSE IF organism = PyNone
    THEN Ret(OrganismError, <<>>)
    ELSE LET call == [method |-> "score_interval",
                      subject |-> interval,
                      organism |-> organism_enum(organism),
                      requested_outputs |-> PyNone,
                      outcome |-> ext.call]
         IN IF ext.call # "ok"
            THEN Ret(Failure(ExtMsg, ext.call), <<call>>)
            ELSE Ret([success |-> TRUE,
                      results |-> _serialize_scores(ext.out),
                      interval |-> interval], <<call>>)

score_intervals(intervals, organism, ext, lib) ==
    IF BuildIntervalsError(intervals, lib).type # "none"
    THEN Ret(Failure(BuildIntervalsError(intervals, lib).error,
                     BuildIntervalsError(intervals, lib).type), <<>>)
    ELSE IF organism = PyNone
    THEN Ret(OrganismError, <<>>)
    ELSE LET call == [method |-> "score_intervals",
                      subject |-> intervals,
                      organism |-> organism_enum(organism),
                      requested_outputs |-> PyNone,
                      outcome |-> ext.call]
         IN IF ext.call # "ok"
            THEN Ret(Failure(ExtMsg, ext.call), <<call>>)
            ELSE Ret([success |-> TRUE,
                      results |-> [i \in DOMAIN ext.out |-> _serialize_scores(ext.out[i])],
                      interval_count |-> Len(intervals)], <<call>>)

score_ism_variants(interval, ism_interval, organism, ext, lib) ==
    IF RejectsInterval(lib, interval) \/ RejectsInterval(lib, ism_interval)
    THEN Ret(Failure(LibMsg, "ValueError"), <<>>)
    ELSE IF organism = PyNone
    THEN Ret(OrganismError, <<>>)
    ELSE LET call == [method |-> "score_ism_variants",
                      subject |-> <<interval, ism_interval>>,
                      organism |-> organism_enum(organism),
                      requested_outputs |-> PyNone,
                      outcome |-> ext.call]
         IN IF ext.call # "ok"
            THEN Ret(Failure(ExtMsg, ext.call), <<call>>)
            ELSE Ret([success |-> TRUE,
                      results |-> [i \in DOMAIN ext.out |-> _serialize_scores(ext.out[i])],
                      interval |-> interval,
                      ism_interval |-> ism_interval], <<call>>)

----------------------------------------------------------------------------
(* parse_variant_string.  A variant string is a sequence of one-character   *)
(* strings.                                                                 *)

\* the index of the first sep in s, or 0
RECURSIVE Find(_, _, _)
Find(s, sep, i) ==
    IF i > Len(s) THEN 0
    ELSE IF s[i] = sep THEN i
    ELSE Find(s, sep, i + 1)

\* s.split(sep) for a one-character sep
RECURSIVE Split(_, _)
Split(s, sep) ==
    IF Find(s, sep, 1) = 0 THEN <<s>>
    ELSE <<SubSeq(s, 1, Find(s, sep, 1) - 1)>>
         \o Split(SubSeq(s, Find(s, sep, 1) + 1, Len(s)), sep)

Digits == {"0", "1", "2", "3", "4", "5", "6", "7", "8", "9"}

DigitValue(c) ==
    CASE c = "0" -> 0 [] c = "1" -> 1 [] c = "2" -> 2 [] c = "3" -> 3 [] c = "4" -> 4
      [] c = "5" -> 5 [] c = "6" -> 6 [] c = "7" -> 7 [] c = "8" -> 8 [] c = "9" -> 9

\* whether int(s) returns: over the model's alphabets (no sign, blank or
\* underscore) that is a non-empty string of digits
IsInt(s) == s # <<>> /\ Chars(s) \subseteq Digits

\* int(s)
RECURSIVE IntValue(_)
IntValue(s) ==
    IF s = <<>> THEN 0
    ELSE 10 * IntValue(SubSeq(s, 1, Len(s) - 1)) + DigitValue(s[Len(s)])

\* the manual result with the two alleles exchanged
ManualResult_swapped(variant_string, parts, variant_format) ==
    [success |-> TRUE,
     result |-> [chromosome |-> parts[1],
                 position |-> IntValue(parts[2]),
                 reference_bases |-> parts[4],
                 alternate_bases |-> parts[3],
                 name |-> variant_string,
                 parsed_format |-> variant_format],
     original_string |-> variant_string]

\* the dict both manual branches return
ManualResult(variant_string, parts, variant_format) ==
    [success |-> TRUE,
     result |-> [chromosome |-> parts[1],
                 position |-> IntValue(parts[2]),
                 reference_bases |-> parts[3],
                 alternate_bases |-> parts[4],
                 name |-> variant_string,
                 parsed_format |-> variant_format],
     original_string |-> variant_string]

\* variant_format.lower() on the format names of the model
FormatLower(name) ==
    CASE name = "GNOMAD" -> "gnomad"
      [] name = "Default" -> "default"
      [] OTHER -> name

\* format_map.get(variant_format.lower(), VariantFormat.DEFAULT)
format_enum(variant_format) ==
    CASE FormatLower(variant_format) = "default" -> "DEFAULT"
      [] FormatLower(variant_format) = "gnomad" -> "GNOMAD"
      [] FormatLower(variant_format) = "gtex" -> "GTEX"
      [] FormatLower(variant_format) = "open_targets" -> "OPEN_TARGETS"
      [] FormatLower(variant_format) = "open_targets_bigquery" -> "OPEN_TARGETS_BIGQUERY"
      [] OTHER -> "DEFAULT"

\* the variant the library parser returns when it accepts a string
LibVariant ==
    [chromosome |-> <<"c">>, position |-> 1, reference_bases |-> <<"A">>,
     alternate_bases |-> <<"G">>, name |-> <<"n">>]

\* the part of parse_variant_string after the manual branches
LibraryParse(variant_string, variant_format, lib) ==
    LET consulted == <<[string |-> variant_string, format |-> format_enum(variant_format)]>>
        variant == LibVariant
    IN IF consulted[1] \notin lib.accepts
       THEN RetParsed(Failure("Invalid variant string", "ValueError"), consulted)
       ELSE RetParsed([success |-> TRUE,
                       result |-> [chromosome |-> variant.chromosome,
                                   position |-> variant.position,
                                   reference_bases |-> variant.reference_bases,
                                   alternate_bases |-> variant.alternate_bases,
                                   name |-> variant.name,
                                   parsed_format |-> variant_format],
                       original_string |-> variant_string], consulted)

\* one manual branch: split on sep; four parts are returned as parsed, int()
\* raising ValueError into the except-clause; any other count falls through
ManualBranch(variant_string, sep, variant_format, lib) ==
    LET parts == Split(variant_string, sep)
    IN IF Len(parts) = 4
       THEN IF IsInt(parts[2])
            THEN Ret(ManualResult(variant_string, parts, variant_format), <<>>)
            ELSE Ret(Failure("invalid literal for int() with base 10", "ValueError"), <<>>)
       ELSE LibraryParse(variant_string, variant_format, lib)

parse_variant_string(variant_string, variant_format, lib) ==
    IF "-" \in Chars(variant_string)
    THEN ManualBranch(variant_string, "-", variant_format, lib)
    ELSE IF ":" \in Chars(variant_string)
    THEN ManualBranch(variant_string, ":", variant_format, lib)
    ELSE LibraryParse(variant_string, variant_format, lib)

----------------------------------------------------------------------------
(* DNA sequence arguments of the utilities.  Besides [t |-> "str"], a       *)
(* sequence may be given run-length encoded, [t |-> "runs", v |-> runs],    *)
(* each run [c |-> character, n |-> count >= 1]: the utilities read only    *)
(* the length, the character set and the character counts.                 *)

PyRuns(runs) == [t |-> "runs", v |-> runs]

RECURSIVE RunsLen(_)
RunsLen(runs) == IF runs = <<>> THEN 0 ELSE Head(runs).n + RunsLen(Tail(runs))

\* len(sequence)
StrLen(x) == IF x.t = "runs" THEN RunsLen(x.v) ELSE Len(x.v)

\* set(sequence.upper())
UpperChars(x) ==
    IF x.t = "runs" THEN {UpperChar(x.v[i].c) : i \in DOMAIN x.v} ELSE Chars(Upper(x.v))

RECURSIVE RunsCount(_, _)
RunsCount(runs, c) ==
    IF runs = <<>> THEN 0
    ELSE (IF UpperChar(Head(runs).c) = c THEN Head(runs).n ELSE 0) + RunsCount(Tail(runs), c)

\* sequence.count(c) without the upper-casing
CasedCount(x, c) ==
    IF x.t = "runs" THEN RunsCount(x.v, c)
    ELSE Cardinality({i \in DOMAIN x.v : x.v[i] = c})

\* sequence.upper().count(c)
UpperCount(x, c) ==
    IF x.t = "runs" THEN RunsCount(x.v, c)
    ELSE Cardinality({i \in DOMAIN x.v : UpperChar(x.v[i]) = c})

\* supported_lengths = [2048, 16384, 131072, 524288, 1048576]
supported_lengths == <<2048, 16384, 131072, 524288, 1048576>>

Range(f) == {f[i] : i \in DOMAIN f}

\* a function restricted to the keys in S
Restrict(f, S) == [d \in S |-> f[d]]

----------------------------------------------------------------------------
(* validate_genomic_data.  data is a dict: a function from the keys it has. *)
(* Messages are given without their interpolated values.                    *)

\* data.get(key, default)
Get(d, key, default) == IF key \in DOMAIN d THEN d[key] ELSE default

\* the "sequence" branch with an unsupported length counted as an error
ValidateSequence_strict(data) ==
    LET sequence == Get(data, "sequence", PyStr(<<>>))
    IN IF ~Truthy(sequence)
       THEN [valid |-> FALSE, errors |-> <<"Sequence is empty">>, warnings |-> <<>>]
       ELSE [valid |-> UpperChars(sequence) \ valid_chars = {}
                       /\ StrLen(sequence) \in Range(supported_lengths),
             errors |-> IF UpperChars(sequence) \ valid_chars # {}
                        THEN <<"Invalid characters found">> ELSE <<>>,
             warnings |-> IF StrLen(sequence) \notin Range(supported_lengths)
                          THEN <<"Sequence length not in supported lengths">> ELSE <<>>]

\* the validation_results of the "sequence" branch
ValidateSequence(data) ==
    LET sequence == Get(data, "sequence", PyStr(<<>>))
    IN IF ~Truthy(sequence)
       THEN [valid |-> FALSE, errors |-> <<"Sequence is empty">>, warnings |-> <<>>]
       ELSE [valid |-> UpperChars(sequence) \ valid_chars = {},
             errors |-> IF UpperChars(sequence) \ valid_chars # {}
                        THEN <<"Invalid characters found">> ELSE <<>>,
             warnings |-> IF StrLen(sequence) \notin Range(supported_lengths)
                          THEN <<"Sequence length not in supported lengths">> ELSE <<>>]

\* the "interval" branch
ValidateInterval(data) ==
    LET chromosome == Get(data, "chromosome", "")
        start == Get(data, "start", PyNone)
        end == Get(data, "end", PyNone)
    IN [valid |-> ~(chromosome = "")
                  /\ ~(start = PyNone \/ end = PyNone)
                  /\ ~(start.v >= end.v)
                  /\ ~(start.v < 1),
        errors |->
            (IF chromosome = "" THEN <<"Chromosome is required">> ELSE <<>>)
            \o (IF start = PyNone \/ end = PyNone
                THEN <<"Start and end positions are required">>
                ELSE IF start.v >= end.v
                THEN <<"End position must be greater than start position">>
                ELSE IF start.v < 1
                THEN <<"Start position must be positive">>
                ELSE <<>>),
        warnings |-> <<>>]

\* the allele alphabet with N added
allele_chars_with_N == {"A", "T", "G", "C", "N"}

\* valid_chars = set('ATGC') of the "variant" branch
allele_chars == {"A", "T", "G", "C"}

\* the "variant" branch
ValidateVariant(data) ==
    LET chromosome == Get(data, "chromosome", "")
        position == Get(data, "position", PyNone)
        ref == Get(data, "ref", <<>>)
        alt == Get(data, "alt", <<>>)
    IN [valid |-> ~(chromosome = "")
                  /\ ~(position = PyNone \/ position.v < 1)
                  /\ ~(ref = <<>> \/ alt = <<>>)
                  /\ Chars(Upper(ref)) \subseteq allele_chars
                  /\ Chars(Upper(alt)) \subseteq allele_chars,
        errors |->
            (IF chromosome = "" THEN <<"Chromosome is required">> ELSE <<>>)
            \o (IF position = PyNone \/ position.v < 1
                THEN <<"Position must be a positive integer">> ELSE <<>>)
            \o (IF ref = <<>> \/ alt = <<>>
                THEN <<"Reference and alternate alleles are required">>
                ELSE (IF ~(Chars(Upper(ref)) \subseteq allele_chars)
                      THEN <<"Reference allele contains invalid characters">> ELSE <<>>)
                     \o (IF ~(Chars(Upper(alt)) \subseteq allele_chars)
                         THEN <<"Alternate allele contains invalid characters">> ELSE <<>>)),
        warnings |-> <<>>]

validate_genomic_data(data_type, data) ==
    LET found == CASE data_type = "sequence" -> ValidateSequence(data)
                   [] data_type = "interval" -> ValidateInterval(data)
                   [] data_type = "variant" -> ValidateVariant(data)
                   [] OTHER -> [valid |-> TRUE, errors |-> <<>>, warnings |-> <<>>]
    IN Ret([success |-> TRUE,
            result |-> [valid |-> found.valid,
                        warnings |-> found.warnings,
                        errors |-> found.errors],
            data_type |-> data_type], <<>>)

----------------------------------------------------------------------------
(* get_supported_outputs.                                                   *)

\* get_supported_outputs asking the service for its metadata first
get_supported_outputs_remote ==
    Ret([success |-> TRUE,
         result |-> [output_types |-> OutputTypeNames,
                     supported_sequence_lengths |-> supported_lengths,
                     max_ism_interval_width |-> 10,
                     max_variant_scorers_per_request |-> 20,
                     supported_organisms |-> <<"human">>,
                     variant_formats |-> <<"default", "gnomad", "gtex", "open_targets",
                                           "open_targets_bigquery">>]],
        <<[method |-> "output_metadata", subject |-> <<>>, organism |-> "HOMO_SAPIENS",
           requested_outputs |-> PyNone, outcome |-> "ok"]>>)

get_supported_outputs ==
    Ret([success |-> TRUE,
         result |-> [output_types |-> OutputTypeNames,
                     supported_sequence_lengths |-> supported_lengths,
                     max_ism_interval_width |-> 10,
                     max_variant_scorers_per_request |-> 20,
                     supported_organisms |-> <<"human">>,
                     variant_formats |-> <<"default", "gnomad", "gtex", "open_targets",
                                           "open_targets_bigquery">>]], <<>>)

----------------------------------------------------------------------------
(* calculate_genomic_overlap.  Interval.overlaps and Interval.intersect are *)
(* the genome library's: two intervals overlap when they are on the same    *)
(* chromosome and each starts before the other ends, and their intersection *)
(* runs from the larger start to the smaller end.                           *)

Max(a, b) == IF a >= b THEN a ELSE b

Min(a, b) == IF a <= b THEN a ELSE b

\* int1.overlaps(int2)
overlaps(int1, int2) ==
    int1.chromosome = int2.chromosome /\ int1.start < int2.end /\ int2.start < int1.end

\* the span of two intervals in place of their intersection
intersect_span(int1, int2) ==
    [chromosome |-> int1.chromosome,
     start |-> Min(int1.start, int2.start),
     end |-> Max(int1.end, int2.end)]

\* int1.intersect(int2)
intersect(int1, int2) ==
    [chromosome |-> int1.chromosome,
     start |-> Max(int1.start, int2.start),
     end |-> Min(int1.end, int2.end)]

\* (num / den) * 100, kept as the fraction
Percentage(num, den) == [num |-> num * 100, den |-> den]

calculate_genomic_overlap(interval1, interval2, lib) ==
    IF MissingKey(interval1, IntervalKeys) # ""
    THEN Ret(Failure(KeyMsg(MissingKey(interval1, IntervalKeys)), "KeyError"), <<>>)
    ELSE IF RejectsInterval(lib, interval1)
    THEN Ret(Failure(LibMsg, "ValueError"), <<>>)
    ELSE IF MissingKey(interval2, IntervalKeys) # ""
    THEN Ret(Failure(KeyMsg(MissingKey(interval2, IntervalKeys)), "KeyError"), <<>>)
    ELSE IF RejectsInterval(lib, interval2)
    THEN Ret(Failure(LibMsg, "ValueError"), <<>>)
    ELSE LET base == [overlaps |-> overlaps(interval1, interval2),
                      interval1 |-> interval1,
                      interval2 |-> interval2]
             intersection == intersect(interval1, interval2)
             int1_length == interval1.end - interval1.start + 1
             int2_length == interval2.end - interval2.start + 1
             overlap_length == intersection.end - intersection.start + 1
         IN IF ~overlaps(interval1, interval2)
            THEN Ret([success |-> TRUE, result |-> base], <<>>)
            ELSE IF int1_length = 0 \/ int2_length = 0
            THEN Ret(Failure("division by zero", "ZeroDivisionError"), <<>>)
            ELSE Ret([success |-> TRUE,
                      result |-> [overlaps |-> TRUE,
                                  interval1 |-> interval1,
                                  interval2 |-> interval2,
                                  intersection |->
                                      [chromosome |-> intersection.chromosome,
                                       start |-> intersection.start,
                                       end |-> intersection.end,
                                       length |-> overlap_length],
                                  overlap_stats |->
                                      [overlap_length |-> overlap_length,
                                       interval1_length |-> int1_length,
                                       interval2_length |-> int2_length,
                                       overlap_percentage_int1 |->
                                           Percentage(overlap_length, int1_length),
                                       overlap_percentage_int2 |->
                                           Percentage(overlap_length, int2_length)]]],
                     <<>>)

----------------------------------------------------------------------------
(* get_sequence_info.                                                       *)

Abs(n) == IF n < 0 THEN -n ELSE n

\* the last of the supported lengths closest to length
closest_length_last(length) ==
    LET best == CHOOSE i \in DOMAIN supported_lengths :
                  /\ \A j \in DOMAIN supported_lengths :
                       Abs(supported_lengths[i] - length) <= Abs(supported_lengths[j] - length)
                  /\ \A j \in (i + 1)..Len(supported_lengths) :
                       Abs(supported_lengths[j] - length) > Abs(supported_lengths[i] - length)
    IN supported_lengths[best]

\* min(supported_lengths, key=lambda x: abs(x - length)): the first minimum
closest_length(length) ==
    LET best == CHOOSE i \in DOMAIN supported_lengths :
                  /\ \A j \in DOMAIN supported_lengths :
                       Abs(supported_lengths[i] - length) <= Abs(supported_lengths[j] - length)
                  /\ \A j \in 1..(i - 1) :
                       Abs(supported_lengths[j] - length) > Abs(supported_lengths[i] - length)
    IN supported_lengths[best]

\* round(num / den * 100, 2) in hundredths, halves going to the even neighbour
\* (the quotient 10000 * num / den is taken digit by digit, so that no
\* intermediate value leaves the integers of the model)
Hundredths(num, den) ==
    LET q0 == num \div den
        r0 == num % den
        q1 == 10 * q0 + (10 * r0) \div den
        r1 == (10 * r0) % den
        q2 == 10 * q1 + (10 * r1) \div den
        r2 == (10 * r1) % den
        q3 == 10 * q2 + (10 * r2) \div den
        r3 == (10 * r2) % den
        q == 10 * q3 + (10 * r3) \div den
        r == (10 * r3) % den
    IN IF 2 * r > den \/ (2 * r = den /\ q % 2 = 1) THEN q + 1 ELSE q

get_sequence_info(sequence) ==
    IF ~Truthy(sequence)
    THEN Ret(Failure("Sequence cannot be empty", "ValueError"), <<>>)
    ELSE LET length == StrLen(sequence)
             base_counts == [b \in valid_chars |-> UpperCount(sequence, b)]
             gc_count == base_counts["G"] + base_counts["C"]
             at_count == base_counts["A"] + base_counts["T"]
             known_bases == gc_count + at_count
             invalid_chars == UpperChars(sequence) \ valid_chars
         IN Ret([success |-> TRUE,
                 result |-> [length |-> length,
                             base_counts |-> base_counts,
                             gc_content |-> IF known_bases > 0
                                            THEN Hundredths(gc_count, known_bases) ELSE 0,
                             at_content |-> IF known_bases > 0
                                            THEN Hundredths(known_bases - gc_count, known_bases)
                                            ELSE 10000,
                             n_content |-> Hundredths(base_counts["N"], length),
                             is_valid |-> Cardinality(invalid_chars) = 0,
                             invalid_characters |-> invalid_chars,
                             is_supported_length |-> length \in Range(supported_lengths),
                             closest_supported_length |-> closest_length(length),
                             supported_lengths |-> supported_lengths]], <<>>)

----------------------------------------------------------------------------
(* The composite operations.                                                *)

analyze_gene_region(gene_symbol) ==
    Ret([success |-> FALSE,
         error |-> "Gene coordinate lookup requires integration with Ensembl/UCSC API",
         type |-> "NotImplementedError",
         suggestion |-> "Use predict_genomic_interval with gene coordinates from Ensembl"],
        <<>>)

\* ext1 and ext2 are what the service does on the first and the second call
compare_sequences(sequence1, sequence2, organism, output_types, ext1, ext2) ==
    LET r1 == predict_sequence(sequence1, organism, output_types, ext1)
        r2 == predict_sequence(sequence2, organism, output_types, ext2)
        result1 == r1.env
        result2 == r2.env
    IN IF ~result1.success \/ ~result2.success
       THEN Ret([success |-> FALSE,
                 error |-> "Failed to predict one or both sequences",
                 result1 |-> result1,
                 result2 |-> result2], r1.calls \o r2.calls)
       ELSE Ret([success |-> TRUE,
                 result |-> [sequence1 |-> [length |-> Len(sequence1.v),
                                            predictions |-> result1.result],
                             sequence2 |-> [length |-> Len(sequence2.v),
                                            predictions |-> result2.result],
                             comparison |->
                                 [length_difference |->
                                      Abs(Len(sequence1.v) - Len(sequence2.v))]]],
                r1.calls \o r2.calls)

rank_variants_by_impact(variants, interval, organism, ranking_metric, ext, lib) ==
    LET scored == score_variants(variants, interval, organism, ext, lib)
        score_result == scored.env
    IN IF ~score_result.success
       THEN scored
       ELSE Ret([success |-> TRUE,
                 result |->
                     [ranked_variants |->
                          [i \in DOMAIN variants |->
                              [rank |-> i,
                               variant |-> variants[i],
                               scores |-> IF i <= Len(score_result.results)
                                          THEN score_result.results[i]
                                          ELSE PyNone,
                               impact_category |-> "unknown"]],
                      total_variants |-> Len(variants),
                      ranking_metric |-> ranking_metric,
                      interval |-> interval]], scored.calls)

----------------------------------------------------------------------------
(* The client object in use: a caller invokes one method after the other.   *)
(* Each operation is one action; the caller then drops the envelope         *)
(* (Discard) or keeps it for a later comparison (Remember).                 *)

None == [t |-> "none"]

\* the alphabet of the sequence arguments: bases in both cases and a letter
\* that is no base
SeqAlphabet == {"A", "c", "n", "X"}

\* sequence arguments: None, a string, or a value that is no string
Sequences ==
    {PyNone, PyList(<<PyStr(<<"A">>)>>)}
    \cup {PyStr(q) : q \in StringsUpTo(SeqAlphabet, MaxSeqLen)}

\* sequence arguments of compare_sequences
ComparedSequences == {PyNone, PyStr(<<"A", "c">>), PyStr(<<"X">>), PyStr(<<"n">>)}

\* variant strings: four fields, a position that is no number, colons, and one
\* string that neither manual branch takes
VariantStrings ==
    { <<"c", "-", "1", "2", "-", "A", "-", "G">>,
      <<"c", "-", "A", "-", "A", "-", "G">>,
      <<"c", ":", "7", ":", "A", ":", "G">>,
      <<"c", "-", "1">> }

\* variant_format arguments
VariantFormats == {"default", "GNOMAD", "bogus"}

\* the strings and formats of the model that reach the library parser
LibKeys == [string : {<<"c", "-", "1">>}, format : {"DEFAULT", "GNOMAD"}]

\* representative library behaviours
Libraries ==
    { [strict |-> FALSE, accepts |-> {}],
      [strict |-> TRUE, accepts |-> {k \in LibKeys : k.format = "GNOMAD"}],
      [strict |-> TRUE, accepts |-> LibKeys] }

\* (data_type, data) arguments of validate_genomic_data
ValidateInputs ==
    { <<"sequence", [sequence |-> PyStr(<<"A", "c">>)]>>,
      <<"sequence", [sequence |-> PyStr(<<"A", "X">>)]>>,
      <<"sequence", <<>>>>,
      <<"interval", [chromosome |-> "chr1", start |-> PyInt(1), end |-> PyInt(5)]>>,
      <<"interval", [chromosome |-> "", start |-> PyInt(0)]>>,
      <<"variant", [chromosome |-> "chr1", position |-> PyInt(3),
                    ref |-> <<"A">>, alt |-> <<"n">>]>>,
      <<"variant", [chromosome |-> "chr1", ref |-> <<"A">>]>>,
      <<"other", <<>>>> }

\* sequence arguments of get_sequence_info
InfoSequences ==
    {PyNone, PyStr(<<>>), PyStr(<<"A", "c">>), PyStr(<<"n", "X">>),
     PyRuns(<<[c |-> "g", n |-> 2048]>>)}

TypeOK ==
    /\ op \in STRING
    /\ ncalls \in 0..MaxCalls
    /\ library \in Libraries
    /\ Len(extCalls) <= 2

\* no exception
NoExc == [cls |-> "none", msg |-> [text |-> ""]]

\* a constructed client that nothing has been called on yet, used as a library
Init ==
    /\ op = "none"
    /\ args = None
    /\ env = None
    /\ extCalls = <<>>
    /\ parsed = <<>>
    /\ ncalls = 0
    /\ memo = None
    /\ library \in Libraries
    /\ client = "created"
    /\ mpc = "library"
    /\ argv = None
    /\ raised = NoExc
    /\ stdout = <<>>
    /\ exitStatus = "running"

\* a client exists, used as a library, and no envelope is waiting to be looked at
Idle == mpc = "library" /\ client = "created" /\ op = "none"

\* one method call: name is invoked with arguments a and produces r
Invoke(name, a, r) ==
    /\ ncalls + Len(r.calls) <= MaxCalls
    /\ op' = name
    /\ args' = a
    /\ env' = r.env
    /\ extCalls' = r.calls
    /\ parsed' = r.parsed
    /\ ncalls' = ncalls + Len(r.calls)
    /\ UNCHANGED <<memo, library, client>>

PredictSequence ==
    /\ Idle
    /\ UNCHANGED mainVars
    /\ \E sequence \in Sequences, organism \in Organisms, output_types \in OutputTypeArgs,
          ext \in ExtOutcomes(Outputs) :
           Invoke("predict_sequence",
                  [sequence |-> sequence, organism |-> organism, output_types |-> output_types],
                  predict_sequence(sequence, organism, output_types, ext))

PredictInterval ==
    /\ Idle
    /\ UNCHANGED mainVars
    /\ \E interval \in Intervals, organism \in Organisms, output_types \in OutputTypeArgs,
          ext \in ExtOutcomes(Outputs) :
           Invoke("predict_interval",
                  [interval |-> interval, organism |-> organism, output_types |-> output_types],
                  predict_interval(interval, organism, output_types, ext, library))

PredictVariant ==
    /\ Idle
    /\ UNCHANGED mainVars
    /\ \E variant \in Variants, interval \in Intervals, organism \in Organisms,
          output_types \in OutputTypeArgs, ext \in ExtOutcomes(Outputs) :
           Invoke("predict_variant",
                  [variant |-> variant, interval |-> interval, organism |-> organism,
                   output_types |-> output_types],
                  predict_variant(variant, interval, organism, output_types, ext, library))

ScoreVariant ==
    /\ Idle
    /\ UNCHANGED mainVars
    /\ \E variant \in Variants, interval \in Intervals, organism \in Organisms,
          ext \in ExtOutcomes(Scores) :
           Invoke("score_variant",
                  [variant |-> variant, interval |-> interval, organism |-> organism],
                  score_variant(variant, interval, organism, ext, library))

GetOutputMetadata ==
    /\ Idle
    /\ UNCHANGED mainVars
    /\ \E organism \in Organisms, ext \in ExtOutcomes(Outputs) :
           Invoke("get_output_metadata", [organism |-> organism],
                  get_output_metadata(organism, ext))

PredictSequences ==
    /\ Idle
    /\ UNCHANGED mainVars
    /\ \E sequences \in SequenceLists, organism \in Organisms, output_types \in OutputTypeArgs,
          ext \in ExtOutcomes(ListsUpTo(Outputs, MaxBatch)) :
           Invoke("predict_sequences",
                  [sequences |-> sequences, organism |-> organism,
                   output_types |-> output_types],
                  predict_sequences(sequences, organism, output_types, ext))

PredictIntervals ==
    /\ Idle
    /\ UNCHANGED mainVars
    /\ \E intervals \in ListsUpTo(IntervalDicts, MaxBatch), organism \in Organisms,
          output_types \in OutputTypeArgs, ext \in ExtOutcomes(ListsUpTo(Outputs, MaxBatch)) :
           Invoke("predict_intervals",
                  [intervals |-> intervals, organism |-> organism,
                   output_types |-> output_types],
                  predict_intervals(intervals, organism, output_types, ext, library))

PredictVariants ==
    /\ Idle
    /\ UNCHANGED mainVars
    /\ \E variants \in ListsUpTo(VariantDicts, MaxBatch), interval \in IntervalDicts,
          organism \in Organisms, output_types \in OutputTypeArgs,
          ext \in ExtOutcomes(ListsUpTo(VariantOutputs, MaxBatch)) :
           Invoke("predict_variants",
                  [variants |-> variants, interval |-> interval, organism |-> organism,
                   output_types |-> output_types],
                  predict_variants(variants, interval, organism, output_types, ext, library))

ScoreVariants ==
    /\ Idle
    /\ UNCHANGED mainVars
    /\ \E variants \in ListsUpTo(VariantDicts, MaxBatch), interval \in IntervalDicts,
          organism \in Organisms, ext \in ExtOutcomes(ListsUpTo(Scores, MaxBatch)) :
           Invoke("score_variants",
                  [variants |-> variants, interval |-> interval, organism |-> organism],
                  score_variants(variants, interval, organism, ext, library))

ScoreInterval ==
    /\ Idle
    /\ UNCHANGED mainVars
    /\ \E interval \in Intervals, organism \in Organisms, ext \in ExtOutcomes(Scores) :
           Invoke("score_interval", [interval |-> interval, organism |-> organism],
                  score_interval(interval, organism, ext, library))

ScoreIntervals ==
    /\ Idle
    /\ UNCHANGED mainVars
    /\ \E intervals \in ListsUpTo(IntervalDicts, MaxBatch), organism \in Organisms,
          ext \in ExtOutcomes(ListsUpTo(Scores, MaxBatch)) :
           Invoke("score_intervals", [intervals |-> intervals, organism |-> organism],
                  score_intervals(intervals, organism, ext, library))

ScoreIsmVariants ==
    /\ Idle
    /\ UNCHANGED mainVars
    /\ \E interval \in Intervals, ism_interval \in Intervals, organism \in Organisms,
          ext \in ExtOutcomes(ListsUpTo(Scores, MaxBatch)) :
           Invoke("score_ism_variants",
                  [interval |-> interval, ism_interval |-> ism_interval,
                   organism |-> organism],
                  score_ism_variants(interval, ism_interval, organism, ext, library))

ParseVariantString ==
    /\ Idle
    /\ UNCHANGED mainVars
    /\ \E variant_string \in VariantStrings, variant_format \in VariantFormats :
           Invoke("parse_variant_string",
                  [variant_string |-> variant_string, variant_format |-> variant_format],
                  parse_variant_string(variant_string, variant_format, library))

ValidateGenomicData ==
    /\ Idle
    /\ UNCHANGED mainVars
    /\ \E input \in ValidateInputs :
           Invoke("validate_genomic_data", [data_type |-> input[1], data |-> input[2]],
                  validate_genomic_data(input[1], input[2]))

GetSupportedOutputs ==
    /\ Idle
    /\ UNCHANGED mainVars
    /\ Invoke("get_supported_outputs", <<>>, get_supported_outputs)

CalculateGenomicOverlap ==
    /\ Idle
    /\ UNCHANGED mainVars
    /\ \E interval1 \in IntervalDicts, interval2 \in IntervalDicts :
           Invoke("calculate_genomic_overlap",
                  [interval1 |-> interval1, interval2 |-> interval2],
                  calculate_genomic_overlap(interval1, interval2, library))

GetSequenceInfo ==
    /\ Idle
    /\ UNCHANGED mainVars
    /\ \E sequence \in InfoSequences :
           Invoke("get_sequence_info", [sequence |-> sequence], get_sequence_info(sequence))

AnalyzeGeneRegion ==
    /\ Idle
    /\ UNCHANGED mainVars
    /\ \E gene_symbol \in {"BRCA1"} :
           Invoke("analyze_gene_region", [gene_symbol |-> gene_symbol],
                  analyze_gene_region(gene_symbol))

CompareSequences ==
    /\ Idle
    /\ UNCHANGED mainVars
    /\ \E sequence1 \in ComparedSequences, sequence2 \in ComparedSequences,
          organism \in Organisms, output_types \in OutputTypeArgs,
          ext1 \in ExtOutcomes(Outputs), ext2 \in ExtOutcomes(Outputs) :
           Invoke("compare_sequences",
                  [sequence1 |-> sequence1, sequence2 |-> sequence2, organism |-> organism,
                   output_types |-> output_types],
                  compare_sequences(sequence1, sequence2, organism, output_types, ext1, ext2))

RankVariantsByImpact ==
    /\ Idle
    /\ UNCHANGED mainVars
    /\ \E variants \in ListsUpTo(VariantDicts, MaxBatch), interval \in IntervalDicts,
          organism \in Organisms, ext \in ExtOutcomes(ListsUpTo(Scores, MaxBatch)) :
           Invoke("rank_variants_by_impact",
                  [variants |-> variants, interval |-> interval, organism |-> organism,
                   ranking_metric |-> "composite"],
                  rank_variants_by_impact(variants, interval, organism, "composite", ext,
                                          library))

\* the caller drops the returned envelope and is ready for the next call
Discard ==
    /\ mpc = "library"
    /\ op # "none"
    /\ op' = "none"
    /\ args' = None
    /\ env' = None
    /\ extCalls' = <<>>
    /\ parsed' = <<>>
    /\ UNCHANGED <<ncalls, memo, library, client>>
    /\ UNCHANGED mainVars

Next ==
    \/ PredictSequence
    \/ PredictInterval
    \/ PredictVariant
    \/ ScoreVariant
    \/ GetOutputMetadata
    \/ PredictSequences
    \/ PredictIntervals
    \/ PredictVariants
    \/ ScoreVariants
    \/ ScoreInterval
    \/ ScoreIntervals
    \/ ScoreIsmVariants
    \/ ParseVariantString
    \/ ValidateGenomicData
    \/ GetSupportedOutputs
    \/ CalculateGenomicOverlap
    \/ GetSequenceInfo
    \/ AnalyzeGeneRegion
    \/ CompareSequences
    \/ RankVariantsByImpact
    \/ Discard

Spec == Init /\ [][Next]_vars

----------------------------------------------------------------------------
(* The utilities among other operations: a caller keeps the envelope of a   *)
(* utility (Remember), goes on calling the client, and asks again.          *)

\* the operations under "Utility and validation tools" that are examined here
Utilities ==
    {"parse_variant_string", "validate_genomic_data", "get_supported_outputs",
     "calculate_genomic_overlap", "get_sequence_info"}

\* the caller keeps what a utility was asked and what it answered
Remember ==
    /\ mpc = "library"
    /\ op \in Utilities
    /\ memo' = [op |-> op, args |-> args, env |-> env]
    /\ op' = "none"
    /\ args' = None
    /\ env' = None
    /\ extCalls' = <<>>
    /\ parsed' = <<>>
    /\ UNCHANGED <<ncalls, library, client>>
    /\ UNCHANGED mainVars

UtilNext ==
    \/ ParseVariantString
    \/ ValidateGenomicData
    \/ GetSupportedOutputs
    \/ CalculateGenomicOverlap
    \/ GetSequenceInfo
    \/ GetOutputMetadata
    \/ ScoreInterval
    \/ Remember
    \/ Discard

SpecUtil == Init /\ [][UtilNext]_vars

----------------------------------------------------------------------------
(* parse_variant_string alone, on every string over a small alphabet.       *)

\* a letter, a digit and the two separators
ParseAlphabet == {"c", "1", "-", ":"}

ParseAnyVariantString ==
    /\ Idle
    /\ UNCHANGED mainVars
    /\ \E variant_string \in StringsUpTo(ParseAlphabet, MaxParseLen),
          variant_format \in VariantFormats :
           Invoke("parse_variant_string",
                  [variant_string |-> variant_string, variant_format |-> variant_format],
                  parse_variant_string(variant_string, variant_format, library))

ParseNext ==
    \/ ParseAnyVariantString
    \/ Discard

SpecParse == Init /\ [][ParseNext]_vars

----------------------------------------------------------------------------
(* validate_genomic_data alone, on dicts that have any of the keys of their *)
(* data type.                                                               *)

\* values of a coordinate key: null, or an integer from -1 on
CoordValues == {PyNone} \cup {PyInt(n) : n \in -1..MaxCoord}

\* values of the key "chromosome"
ChromosomeValues == {"", "chr1"}

\* values of the keys "ref" and "alt": strings of bases in both cases, N and a
\* letter that is no base
AlleleValues == StringsUpTo(SeqAlphabet, MaxSeqLen)

\* values of the key "position"
PositionValues == {PyNone, PyInt(0), PyInt(1), PyInt(MaxCoord)}

\* values of the key "sequence": short strings, and long ones of a supported
\* length or next to one, with and without a letter that is no base
SequenceValues ==
    {PyStr(q) : q \in StringsUpTo(SeqAlphabet, MaxSeqLen)}
    \cup {PyRuns(<<[c |-> "g", n |-> n]>>) : n \in {2047, 2048, 2049, 16384, 1048576}}
    \cup {PyRuns(<<[c |-> "a", n |-> n - 1], [c |-> "X", n |-> 1]>>) : n \in {2048, 2049}}

ValidateAnyInterval ==
    /\ Idle
    /\ UNCHANGED mainVars
    /\ \E keys \in SUBSET {"chromosome", "start", "end"}, chromosome \in ChromosomeValues,
          start \in CoordValues, end \in CoordValues :
           LET data == Restrict([chromosome |-> chromosome, start |-> start, end |-> end],
                                keys)
           IN Invoke("validate_genomic_data", [data_type |-> "interval", data |-> data],
                     validate_genomic_data("interval", data))

ValidateAnyVariant ==
    /\ Idle
    /\ UNCHANGED mainVars
    /\ \E keys \in SUBSET {"chromosome", "position", "ref", "alt"},
          chromosome \in ChromosomeValues, position \in PositionValues,
          ref \in AlleleValues, alt \in AlleleValues :
           LET data == Restrict([chromosome |-> chromosome, position |-> position,
                                 ref |-> ref, alt |-> alt], keys)
           IN Invoke("validate_genomic_data", [data_type |-> "variant", data |-> data],
                     validate_genomic_data("variant", data))

ValidateAnySequence ==
    /\ Idle
    /\ UNCHANGED mainVars
    /\ \E keys \in SUBSET {"sequence"}, sequence \in SequenceValues :
           LET data == Restrict([sequence |-> sequence], keys)
           IN Invoke("validate_genomic_data", [data_type |-> "sequence", data |-> data],
                     validate_genomic_data("sequence", data))

ValidateNext ==
    \/ ValidateAnyInterval
    \/ ValidateAnyVariant
    \/ ValidateAnySequence
    \/ Discard

SpecValidate == Init /\ [][ValidateNext]_vars

----------------------------------------------------------------------------
(* get_sequence_info and calculate_genomic_overlap alone.                   *)

\* lengths at, next to and half-way between the supported lengths
InfoLengths ==
    {2047, 2048, 2049, 9215, 9216, 9217, 16384, 73728, 327680, 786432, 1048576, 1048577}

\* sequence arguments: None, short strings, and long sequences of one base or
\* ending in an N or in a letter that is no base
InfoValues ==
    {PyNone}
    \cup {PyStr(q) : q \in StringsUpTo(SeqAlphabet, MaxSeqLen)}
    \cup {PyRuns(<<[c |-> "g", n |-> n]>>) : n \in InfoLengths}
    \cup {PyRuns(<<[c |-> "t", n |-> n - 1], [c |-> last, n |-> 1]>>) :
             n \in InfoLengths, last \in {"n", "X"}}

\* interval dicts with coordinates from 0 on, the end before the start included
OverlapValues ==
    [chromosome : {"chr1", "chr2"}, start : 0..MaxCoord, end : 0..MaxCoord]

GetAnySequenceInfo ==
    /\ Idle
    /\ UNCHANGED mainVars
    /\ \E sequence \in InfoValues :
           Invoke("get_sequence_info", [sequence |-> sequence], get_sequence_info(sequence))

CalculateAnyOverlap ==
    /\ Idle
    /\ UNCHANGED mainVars
    /\ \E interval1 \in OverlapValues, interval2 \in OverlapValues :
           Invoke("calculate_genomic_overlap",
                  [interval1 |-> interval1, interval2 |-> interval2],
                  calculate_genomic_overlap(interval1, interval2, library))

MeasureNext ==
    \/ GetAnySequenceInfo
    \/ CalculateAnyOverlap
    \/ Discard

SpecMeasure == Init /\ [][MeasureNext]_vars

----------------------------------------------------------------------------
(* main: the command line.  A command line is a function from the options   *)
(* given on it (by their dest names) to their values, with the positional   *)
(* command; values of type=int options are given as converted.  Messages of *)
(* the exceptions raised in main are records, so that the command and the   *)
(* arguments a message names can be read off it.                            *)

\* choices of the positional argument command
Commands ==
    {"predict_sequence", "predict_interval", "predict_variant", "score_variant",
     "get_metadata", "predict_sequences", "predict_intervals", "predict_variants",
     "score_variants", "score_interval", "score_intervals", "score_ism_variants",
     "parse_variant_string", "validate_genomic_data", "get_supported_outputs",
     "calculate_genomic_overlap", "get_sequence_info", "analyze_gene_region",
     "compare_sequences", "rank_variants_by_impact"}

\* the dests of the options the parser defines
OptionDests ==
    {"api_key", "sequence", "chromosome", "start", "end", "position", "ref", "alt",
     "interval_start", "interval_end", "organism", "output_types", "ontology_terms",
     "sequences", "intervals", "variants", "interval", "max_workers",
     "ism_chromosome", "ism_start", "ism_end", "gene_symbol", "flanking_size",
     "sequence1", "sequence2", "ranking_metric"}

\* the default of an option
Default(dest) ==
    CASE dest = "organism" -> PyName("human")
      [] dest = "max_workers" -> PyInt(5)
      [] dest = "flanking_size" -> PyInt(10000)
      [] dest = "ranking_metric" -> PyName("composite")
      [] OTHER -> PyNone

\* whether parse_args ends the run with a usage error: an option the parser does
\* not define, a command that is no choice, or no --api-key
UsageError(cl) ==
    \/ ~(DOMAIN cl \subseteq OptionDests \cup {"command"})
    \/ cl.command \notin Commands
    \/ "api_key" \notin DOMAIN cl

\* the namespace parse_args returns
parse_args(cl) ==
    [d \in OptionDests \cup {"command"} |-> IF d \in DOMAIN cl THEN cl[d] ELSE Default(d)]

\* the options full with all of them given, with one left out, or with none
Dropping(full) ==
    {Restrict(full, S) : S \in {DOMAIN full, {}} \cup {DOMAIN full \ {d} : d \in DOMAIN full}}

\* the options a command line of the model gives to a command
OptionsOf(command) ==
    CASE command \in {"predict_sequence", "get_sequence_info"} ->
            Dropping([sequence |-> PyStr(<<"A", "c">>)])
            \cup {[sequence |-> PyStr(<<>>)], [sequence |-> PyStr(<<"X">>)]}
      [] command \in {"predict_interval", "score_interval"} ->
            Dropping([chromosome |-> PyName("chr1"), start |-> PyInt(1), end |-> PyInt(2048)])
            \cup {[chromosome |-> PyName("chr1"), start |-> PyInt(0), end |-> PyInt(5)],
                  [chromosome |-> PyName(""), start |-> PyInt(1), end |-> PyInt(5)]}
      [] command \in {"predict_variant", "score_variant"} ->
            Dropping([chromosome |-> PyName("chr1"), position |-> PyInt(10),
                      ref |-> PyName("A"), alt |-> PyName("G"),
                      interval_start |-> PyInt(1), interval_end |-> PyInt(2048)])
            \cup {[chromosome |-> PyName(""), position |-> PyInt(0),
                   ref |-> PyName("A"), alt |-> PyName("G"),
                   interval_start |-> PyInt(1), interval_end |-> PyInt(2048)]}
      [] command = "predict_sequences" ->
            Dropping([sequences |-> PyJson("valid", PyList(<<PyStr(<<"A", "c">>)>>))])
            \cup {[sequences |-> PyJson("empty", PyNone)],
                  [sequences |-> PyJson("invalid", PyNone)],
                  [sequences |-> PyJson("valid", PyList(<<>>))]}
      [] command \in {"predict_intervals", "score_intervals"} ->
            Dropping([intervals |->
                          PyJson("valid", <<[chromosome |-> "chr1", start |-> 1, end |-> 2048]>>)])
            \cup {[intervals |-> PyJson("invalid", <<>>)],
                  [intervals |-> PyJson("valid", <<[chromosome |-> "chr1", start |-> 1]>>)]}
      [] command \in {"predict_variants", "score_variants", "rank_variants_by_impact"} ->
            Dropping([variants |->
                          PyJson("valid", <<[chromosome |-> "chr1", position |-> 10,
                                             ref |-> "A", alt |-> "G"]>>),
                      interval |->
                          PyJson("valid", [chromosome |-> "chr1", start |-> 1, end |-> 2048])])
            \cup {[variants |-> PyJson("valid", <<>>),
                   interval |-> PyJson("invalid", PyNone)],
                  [variants |-> PyJson("empty", <<>>),
                   interval |-> PyJson("valid", [chromosome |-> "chr1", start |-> 1])]}
      [] command = "score_ism_variants" ->
            Dropping([chromosome |-> PyName("chr1"), start |-> PyInt(1), end |-> PyInt(2048),
                      ism_chromosome |-> PyName("chr1"), ism_start |-> PyInt(0),
                      ism_end |-> PyInt(5)])
      [] command = "parse_variant_string" ->
            Dropping([variant_string |-> PyStr(<<"c", "-", "1", "2", "-", "A", "-", "G">>),
                      variant_format |-> PyName("GNOMAD")])
      [] command = "validate_genomic_data" ->
            Dropping([data_type |-> PyName("sequence"),
                      data |-> PyJson("valid", [sequence |-> PyStr(<<"A", "c">>)])])
      [] command = "calculate_genomic_overlap" ->
            Dropping([interval1 |->
                          PyJson("valid", [chromosome |-> "chr1", start |-> 1, end |-> 2048]),
                      interval2 |->
                          PyJson("valid", [chromosome |-> "chr1", start |-> 1, end |-> 2048])])
      [] command = "analyze_gene_region" ->
            Dropping([gene_symbol |-> PyName("BRCA1")]) \cup {[gene_symbol |-> PyName("")]}
      [] command = "compare_sequences" ->
            Dropping([sequence1 |-> PyStr(<<"A", "c">>), sequence2 |-> PyStr(<<"n">>)])
            \cup {[sequence1 |-> PyStr(<<"A", "c">>), sequence2 |-> PyStr(<<"X">>)]}
      [] OTHER -> {Restrict(<<>>, {})}

\* values of --api-key: empty, or a key
ApiKeys == {PyName(""), PyName("key")}

\* the command line giving options opts to command, with --api-key key
Line(command, key, opts) ==
    [d \in DOMAIN opts \cup {"command", "api_key"} |->
        IF d = "command" THEN command ELSE IF d = "api_key" THEN key ELSE opts[d]]

\* the command lines of the model; one of them lacks --api-key
CommandLines ==
    {Line(command, key, opts) : <<command, key, opts>> \in
        UNION {{<<c, k, o>> : k \in ApiKeys, o \in OptionsOf(c)} : c \in Commands}}
    \cup {[command |-> "get_supported_outputs"]}

----------------------------------------------------------------------------
(* main: the try block.                                                     *)

\* an exception of class cls with message msg
Exc(cls, msg) == [cls |-> cls, msg |-> msg]

\* ValueError("<what> required for <command>")
RequiredError(what, command) == Exc("ValueError", [what |-> what, command |-> command])

\* AttributeError: the namespace has no attribute dest
NoAttribute(dest) ==
    Exc("AttributeError", [text |-> "'Namespace' object has no attribute", attribute |-> dest])

\* json.loads raising on text that is no JSON
JsonError == Exc("JSONDecodeError", [text |-> "Expecting value"])

\* the constructor without the check of the key
AlphaGenomeClient_unchecked(api_key, made) ==
    IF made # "ok"
    THEN [client |-> "none", raised |-> Exc(made, [text |-> ExtMsg])]
    ELSE [client |-> "created", raised |-> NoExc]

\* AlphaGenomeClient(api_key): raises on an empty key, else creates the service
\* client, which returns (made = "ok") or raises made
__init__(api_key, made) ==
    IF ~Truthy(api_key)
    THEN [client |-> "none", raised |-> Exc("ValueError", [text |-> "API key is required"])]
    ELSE IF made # "ok"
    THEN [client |-> "none", raised |-> Exc(made, [text |-> ExtMsg])]
    ELSE [client |-> "created", raised |-> NoExc]

\* the try block raised exc before any method of the client returned
Raise(exc) == [raised |-> exc, name |-> "none", args |-> None, r |-> Ret(None, <<>>)]

\* the try block called method name with arguments a, which returned r
Call(name, a, r) == [raised |-> NoExc, name |-> name, args |-> a, r |-> r]

\* the first of dests that namespace a lacks, or ""
MissingAttr(a, dests) == MissingKey(a, dests)

\* all([x, y is not None, z is not None]) of the interval commands
AllInterval(chromosome, start, end) == Truthy(chromosome) /\ start # PyNone /\ end # PyNone

\* Interval arguments from the namespace
IntervalOf(chromosome, start, end) ==
    [chromosome |-> chromosome.s, start |-> start.v, end |-> end.v]

\* the responses the service can give to the call a command leads to
ResponsesOf(command) ==
    CASE command \in {"predict_sequence", "predict_interval", "predict_variant",
                      "get_metadata", "compare_sequences"} -> Outputs
      [] command \in {"score_variant", "score_interval"} -> Scores
      [] command \in {"predict_sequences", "predict_intervals"} -> ListsUpTo(Outputs, MaxBatch)
      [] command = "predict_variants" -> ListsUpTo(VariantOutputs, MaxBatch)
      [] command \in {"score_variants", "score_intervals", "score_ism_variants",
                      "rank_variants_by_impact"} -> ListsUpTo(Scores, MaxBatch)
      [] OTHER -> {<<>>}

\* the branches of the variant commands predict_variant and score_variant
VariantBranch(a, ext, lib) ==
    IF \E x \in {a.chromosome, a.position, a.ref, a.alt, a.interval_start, a.interval_end} :
           x = PyNone
    THEN Raise(RequiredError("All variant and interval parameters", a.command))
    ELSE LET variant == [chromosome |-> a.chromosome.s, position |-> a.position.v,
                         ref |-> a.ref.s, alt |-> a.alt.s]
             interval == IntervalOf(a.chromosome, a.interval_start, a.interval_end)
         IN IF a.command = "predict_variant"
            THEN Call("predict_variant",
                      [variant |-> variant, interval |-> interval,
                       organism |-> a.organism, output_types |-> a.output_types],
                      predict_variant(variant, interval, a.organism, a.output_types, ext, lib))
            ELSE Call("score_variant",
                      [variant |-> variant, interval |-> interval, organism |-> a.organism],
                      score_variant(variant, interval, a.organism, ext, lib))

\* the branches of predict_variants, score_variants and rank_variants_by_impact
VariantsBranch(a, ext, lib) ==
    IF ~Truthy(a.variants) \/ ~Truthy(a.interval)
    THEN Raise(RequiredError("--variants and --interval", a.command))
    ELSE IF a.variants.text = "invalid" \/ a.interval.text = "invalid"
    THEN Raise(JsonError)
    ELSE LET variants == a.variants.v
             interval == a.interval.v
         IN CASE a.command = "predict_variants" ->
                    Call("predict_variants",
                         [variants |-> variants, interval |-> interval,
                          organism |-> a.organism, output_types |-> a.output_types],
                         predict_variants(variants, interval, a.organism, a.output_types,
                                          ext, lib))
              [] a.command = "score_variants" ->
                    Call("score_variants",
                         [variants |-> variants, interval |-> interval,
                          organism |-> a.organism],
                         score_variants(variants, interval, a.organism, ext, lib))
              [] OTHER ->
                    Call("rank_variants_by_impact",
                         [variants |-> variants, interval |-> interval,
                          organism |-> a.organism, ranking_metric |-> a.ranking_metric.s],
                         rank_variants_by_impact(variants, interval, a.organism,
                                                 a.ranking_metric.s, ext, lib))

\* the branches of the interval commands predict_interval, score_interval and
\* score_ism_variants
IntervalBranch(a, ext, lib) ==
    LET interval == IntervalOf(a.chromosome, a.start, a.end)
    IN CASE a.command = "predict_interval" ->
               IF ~AllInterval(a.chromosome, a.start, a.end)
               THEN Raise(RequiredError("--chromosome, --start, and --end", a.command))
               ELSE Call("predict_interval",
                         [interval |-> interval, organism |-> a.organism,
                          output_types |-> a.output_types],
                         predict_interval(interval, a.organism, a.output_types, ext, lib))
         [] a.command = "score_interval" ->
               IF ~AllInterval(a.chromosome, a.start, a.end)
               THEN Raise(RequiredError("--chromosome, --start, and --end", a.command))
               ELSE Call("score_interval", [interval |-> interval, organism |-> a.organism],
                         score_interval(interval, a.organism, ext, lib))
         [] OTHER ->
               IF ~(AllInterval(a.chromosome, a.start, a.end)
                    /\ AllInterval(a.ism_chromosome, a.ism_start, a.ism_end))
               THEN Raise(RequiredError("All interval and ISM parameters", a.command))
               ELSE LET ism_interval == IntervalOf(a.ism_chromosome, a.ism_start, a.ism_end)
                    IN Call("score_ism_variants",
                            [interval |-> interval, ism_interval |-> ism_interval,
                             organism |-> a.organism],
                            score_ism_variants(interval, ism_interval, a.organism, ext, lib))

\* the branches of the list commands predict_sequences, predict_intervals and
\* score_intervals
ListBranch(a, ext, lib) ==
    CASE a.command = "predict_sequences" ->
            IF ~Truthy(a.sequences)
            THEN Raise(RequiredError("--sequences", a.command))
            ELSE IF a.sequences.text = "invalid"
            THEN Raise(JsonError)
            ELSE Call("predict_sequences",
                      [sequences |-> a.sequences.v, organism |-> a.organism,
                       output_types |-> a.output_types],
                      predict_sequences(a.sequences.v, a.organism, a.output_types, ext))
      [] OTHER ->
            IF ~Truthy(a.intervals)
            THEN Raise(RequiredError("--intervals", a.command))
            ELSE IF a.intervals.text = "invalid"
            THEN Raise(JsonError)
            ELSE IF a.command = "predict_intervals"
            THEN Call("predict_intervals",
                      [intervals |-> a.intervals.v, organism |-> a.organism,
                       output_types |-> a.output_types],
                      predict_intervals(a.intervals.v, a.organism, a.output_types, ext, lib))
            ELSE Call("score_intervals",
                      [intervals |-> a.intervals.v, organism |-> a.organism],
                      score_intervals(a.intervals.v, a.organism, ext, lib))

\* the branches of parse_variant_string, validate_genomic_data and
\* calculate_genomic_overlap, which read attributes of the namespace
UtilityBranch(a, lib) ==
    CASE a.command = "parse_variant_string" ->
            IF MissingAttr(a, <<"variant_string">>) # ""
            THEN Raise(NoAttribute("variant_string"))
            ELSE IF ~Truthy(a.variant_string)
            THEN Raise(RequiredError("--variant-string", a.command))
            ELSE IF MissingAttr(a, <<"variant_format">>) # ""
            THEN Raise(NoAttribute("variant_format"))
            ELSE LET variant_format ==
                         IF Truthy(a.variant_format) THEN a.variant_format.s ELSE "default"
                 IN Call("parse_variant_string",
                         [variant_string |-> a.variant_string.v,
                          variant_format |-> variant_format],
                         parse_variant_string(a.variant_string.v, variant_format, lib))
      [] a.command = "validate_genomic_data" ->
            IF MissingAttr(a, <<"data_type">>) # ""
            THEN Raise(NoAttribute("data_type"))
            ELSE IF ~Truthy(a.data_type)
            THEN Raise(RequiredError("--data-type and --data", a.command))
            ELSE IF MissingAttr(a, <<"data">>) # ""
            THEN Raise(NoAttribute("data"))
            ELSE IF ~Truthy(a.data)
            THEN Raise(RequiredError("--data-type and --data", a.command))
            ELSE IF a.data.text = "invalid"
            THEN Raise(JsonError)
            ELSE Call("validate_genomic_data",
                      [data_type |-> a.data_type.s, data |-> a.data.v],
                      validate_genomic_data(a.data_type.s, a.data.v))
      [] OTHER ->
            IF MissingAttr(a, <<"interval1">>) # ""
            THEN Raise(NoAttribute("interval1"))
            ELSE IF ~Truthy(a.interval1)
            THEN Raise(RequiredError("--interval1 and --interval2", a.command))
            ELSE IF MissingAttr(a, <<"interval2">>) # ""
            THEN Raise(NoAttribute("interval2"))
            ELSE IF ~Truthy(a.interval2)
            THEN Raise(RequiredError("--interval1 and --interval2", a.command))
            ELSE IF a.interval1.text = "invalid" \/ a.interval2.text = "invalid"
            THEN Raise(JsonError)
            ELSE Call("calculate_genomic_overlap",
                      [interval1 |-> a.interval1.v, interval2 |-> a.interval2.v],
                      calculate_genomic_overlap(a.interval1.v, a.interval2.v, lib))

\* the branches of the sequence commands
SequenceBranch(a, ext, ext2) ==
    CASE a.command = "predict_sequence" ->
            IF ~Truthy(a.sequence)
            THEN Raise(RequiredError("--sequence", a.command))
            ELSE Call("predict_sequence",
                      [sequence |-> a.sequence, organism |-> a.organism,
                       output_types |-> a.output_types],
                      predict_sequence(a.sequence, a.organism, a.output_types, ext))
      [] a.command = "get_sequence_info" ->
            IF ~Truthy(a.sequence)
            THEN Raise(RequiredError("--sequence", a.command))
            ELSE Call("get_sequence_info", [sequence |-> a.sequence],
                      get_sequence_info(a.sequence))
      [] OTHER ->
            IF ~Truthy(a.sequence1) \/ ~Truthy(a.sequence2)
            THEN Raise(RequiredError("--sequence1 and --sequence2", a.command))
            ELSE Call("compare_sequences",
                      [sequence1 |-> a.sequence1, sequence2 |-> a.sequence2,
                       organism |-> a.organism, output_types |-> a.output_types],
                      compare_sequences(a.sequence1, a.sequence2, a.organism,
                                        a.output_types, ext, ext2))

\* the if/elif chain on args.command: what the try block does after the client
\* is constructed, given what the service does on the first call (ext) and on a
\* second one (ext2)
dispatch(a, ext, ext2, lib) ==
    CASE a.command \in {"predict_sequence", "get_sequence_info", "compare_sequences"} ->
            SequenceBranch(a, ext, ext2)
      [] a.command \in {"predict_interval", "score_interval", "score_ism_variants"} ->
            IntervalBranch(a, ext, lib)
      [] a.command \in {"predict_variant", "score_variant"} ->
            VariantBranch(a, ext, lib)
      [] a.command = "get_metadata" ->
            Call("get_output_metadata", [organism |-> a.organism],
                 get_output_metadata(a.organism, ext))
      [] a.command \in {"predict_sequences", "predict_intervals", "score_intervals"} ->
            ListBranch(a, ext, lib)
      [] a.command \in {"predict_variants", "score_variants", "rank_variants_by_impact"} ->
            VariantsBranch(a, ext, lib)
      [] a.command \in {"parse_variant_string", "validate_genomic_data",
                        "calculate_genomic_overlap"} ->
            UtilityBranch(a, lib)
      [] a.command = "get_supported_outputs" ->
            Call("get_supported_outputs", <<>>, get_supported_outputs)
      [] a.command = "analyze_gene_region" ->
            IF ~Truthy(a.gene_symbol)
            THEN Raise(RequiredError("--gene-symbol", a.command))
            ELSE Call("analyze_gene_region", [gene_symbol |-> a.gene_symbol.s],
                      analyze_gene_region(a.gene_symbol.s))
      [] OTHER -> Raise(Exc("ValueError", [text |-> "Unknown command", command |-> a.command]))

----------------------------------------------------------------------------
(* main as a process: parse the command line, construct the client,         *)
(* dispatch, print.  json.dumps is taken not to raise: every envelope is    *)
(* built from strings, numbers, lists, dicts and values json.loads gave.    *)

MainInit ==
    /\ op = "none"
    /\ args = None
    /\ env = None
    /\ extCalls = <<>>
    /\ parsed = <<>>
    /\ ncalls = 0
    /\ memo = None
    /\ library \in Libraries
    /\ client = "none"
    /\ mpc = "parse"
    /\ argv \in CommandLines
    /\ raised = NoExc
    /\ stdout = <<>>
    /\ exitStatus = "running"

\* args = parser.parse_args(): on a usage error argparse writes to stderr and
\* exits with status 2
MainParseArgs ==
    /\ mpc = "parse"
    /\ IF UsageError(argv)
       THEN /\ mpc' = "done"
            /\ exitStatus' = 2
            /\ argv' = argv
       ELSE /\ mpc' = "construct"
            /\ exitStatus' = exitStatus
            /\ argv' = parse_args(argv)
    /\ UNCHANGED <<raised, stdout>>
    /\ UNCHANGED clientVars

\* client = AlphaGenomeClient(args.api_key)
MainConstruct ==
    /\ mpc = "construct"
    /\ \E made \in {"ok"} \cup ExtErrors :
          LET c == __init__(argv.api_key, made)
          IN /\ client' = c.client
             /\ raised' = c.raised
             /\ mpc' = IF c.raised = NoExc THEN "dispatch" ELSE "except"
    /\ UNCHANGED <<op, args, env, extCalls, parsed, ncalls, memo, library>>
    /\ UNCHANGED <<argv, stdout, exitStatus>>

\* the if/elif chain: the branch of args.command raises, or calls its method
MainDispatch ==
    /\ mpc = "dispatch"
    /\ \E ext \in ExtOutcomes(ResponsesOf(argv.command)), ext2 \in ExtOutcomes(Outputs) :
          LET d == dispatch(argv, ext, ext2, library)
          IN IF d.raised = NoExc
             THEN /\ Invoke(d.name, d.args, d.r)
                  /\ mpc' = "print"
                  /\ raised' = raised
             ELSE /\ raised' = d.raised
                  /\ mpc' = "except"
                  /\ UNCHANGED clientVars
    /\ UNCHANGED <<argv, stdout, exitStatus>>

\* print(json.dumps(result, indent=2)), and main returns
MainPrint ==
    /\ mpc = "print"
    /\ stdout' = Append(stdout, env)
    /\ mpc' = "done"
    /\ exitStatus' = 0
    /\ UNCHANGED <<argv, raised>>
    /\ UNCHANGED clientVars

\* the except-clause that prints nothing before it exits
MainExcept_silent ==
    /\ mpc = "except"
    /\ mpc' = "done"
    /\ exitStatus' = 1
    /\ UNCHANGED <<argv, raised, stdout>>
    /\ UNCHANGED clientVars

\* except Exception as e: print the failure envelope, sys.exit(1)
MainExcept ==
    /\ mpc = "except"
    /\ stdout' = Append(stdout, Failure(raised.msg, raised.cls))
    /\ mpc' = "done"
    /\ exitStatus' = 1
    /\ UNCHANGED <<argv, raised>>
    /\ UNCHANGED clientVars

MainNext ==
    \/ MainParseArgs
    \/ MainConstruct
    \/ MainDispatch
    \/ MainPrint
    \/ MainExcept

SpecMain == MainInit /\ [][MainNext]_vars

----------------------------------------------------------------------------
(* Properties of the client object.                                         *)

\* an operation has returned and its envelope is in env
Returned == op # "none"

\* C1: every operation returns a dict with a boolean 'success', and a dict whose
\* 'success' is false carries both 'error' and 'type'.
C1_UniformEnvelope ==
    Returned =>
        /\ "success" \in DOMAIN env
        /\ env.success \in BOOLEAN
        /\ (~env.success => {"error", "type"} \subseteq DOMAIN env)

\* the letters of the DNA alphabet in either case
DnaLetters == {"A", "T", "G", "C", "N", "a", "t", "g", "c", "n"}

\* a non-empty string of DNA letters
IsDna(x) == x.t = "str" /\ x.v # <<>> /\ \A i \in DOMAIN x.v : x.v[i] \in DnaLetters

\* C3: predict_sequence calls the service only for a non-empty string of A, T, G,
\* C, N in either case; any other sequence gives no call and a ValueError
\* envelope; the sequence passed is the input in upper case, and a success
\* envelope reports the input's length.
C3_PredictSequenceValidates ==
    op = "predict_sequence" =>
        /\ (extCalls # <<>> => IsDna(args.sequence))
        /\ (~IsDna(args.sequence) =>
                extCalls = <<>> /\ ~env.success /\ env.type = "ValueError")
        /\ \A k \in DOMAIN extCalls :
              /\ Len(extCalls[k].subject) = Len(args.sequence.v)
              /\ \A i \in DOMAIN extCalls[k].subject :
                    /\ extCalls[k].subject[i] \in valid_chars
                    /\ LowerChar(extCalls[k].subject[i]) = LowerChar(args.sequence.v[i])
        /\ (env.success => env.sequence_length = Len(args.sequence.v))

\* a lower-case sequence was sent to the service in upper case
C3_Witness ==
    /\ op = "predict_sequence"
    /\ args.sequence = PyStr(<<"n", "c">>)
    /\ env.success
    /\ extCalls[1].subject = <<"N", "C">>

\* the pass-through operations
PassThrough ==
    {"predict_sequence", "predict_interval", "predict_variant", "score_variant",
     "get_output_metadata", "predict_sequences", "predict_intervals", "predict_variants",
     "score_variants", "score_interval", "score_intervals", "score_ism_variants"}

\* the method of the service client that serves an operation
ServiceMethod(name) == IF name = "get_output_metadata" THEN "output_metadata" ELSE name

\* C4: a pass-through operation makes at most one call, to the service method of
\* the same purpose; it reports success only if that call returned; when the
\* call raises it reports the exception's class and calls nothing else.
C4_PassThrough ==
    op \in PassThrough =>
        /\ Len(extCalls) <= 1
        /\ \A k \in DOMAIN extCalls : extCalls[k].method = ServiceMethod(op)
        /\ (env.success => Len(extCalls) = 1 /\ extCalls[1].outcome = "ok")
        /\ \A k \in DOMAIN extCalls :
              extCalls[k].outcome # "ok" =>
                  k = Len(extCalls) /\ ~env.success /\ env.type = extCalls[k].outcome

\* a batch scoring call raised and its class is reported
C4_Witness ==
    /\ op = "score_ism_variants"
    /\ Len(extCalls) = 1
    /\ extCalls[1].outcome = "RpcError"
    /\ env = Failure(ExtMsg, "RpcError")

\* whether a serialized response is the dict of a serializer's except-clause
SerializationFailed(x) == "error" \in DOMAIN x

\* the serialized responses a success envelope of a service operation carries
Serialized(name, e) ==
    CASE name \in {"predict_sequence", "predict_interval", "predict_variant",
                   "score_variant", "get_output_metadata"} -> {e.result}
      [] name = "score_interval" -> {e.results}
      [] name \in {"predict_sequences", "predict_intervals", "predict_variants",
                   "score_variants", "score_intervals", "score_ism_variants"} ->
            Range(e.results)
      [] name = "compare_sequences" ->
            {e.result.sequence1.predictions, e.result.sequence2.predictions}
      [] name = "rank_variants_by_impact" ->
            {e.result.ranked_variants[i].scores : i \in DOMAIN e.result.ranked_variants}
               \ {PyNone}
      [] OTHER -> {}

\* C6: no envelope has 'success' true together with a response whose
\* serialization failed.
C6_SuccessMeansSerialized ==
    (Returned /\ env.success) => \A x \in Serialized(op, env) : ~SerializationFailed(x)

----------------------------------------------------------------------------
(* Properties of the utilities.                                             *)

\* the utility that has just returned was asked the same before
AskedBefore == memo # None /\ memo.op = op /\ memo.args = args

\* C5: a utility never calls the service client, leaves the client object as it
\* was, and answers the same arguments with the same envelope whatever was
\* called in between.
C5_UtilitiesStateless ==
    /\ [](op \in Utilities => (extCalls = <<>> /\ (AskedBefore => env = memo.env)))
    /\ [][(op' \in Utilities /\ op = "none") =>
              (client' = client /\ ncalls' = ncalls /\ library' = library)]_vars

\* a utility was asked again after the service had been called
C5_Witness ==
    /\ op = "get_sequence_info"
    /\ AskedBefore
    /\ ncalls > 0
    /\ env.success
    /\ env = memo.env

\* the positions of the hyphens of a string
Hyphens(s) == {i \in DOMAIN s : s[i] = "-"}

\* the k-th of the four fields of a string with three hyphens
Field(s, k) ==
    LET h == Hyphens(s)
        from == IF k = 1 THEN 1
                ELSE 1 + CHOOSE i \in h : Cardinality({j \in h : j < i}) = k - 2
        to == IF k = 4 THEN Len(s)
              ELSE (CHOOSE i \in h : Cardinality({j \in h : j < i}) = k - 1) - 1
    IN SubSeq(s, from, to)

\* the value of a string of decimal digits, read from the left
RECURSIVE Decimal(_, _)
Decimal(s, acc) ==
    IF s = <<>> THEN acc ELSE Decimal(Tail(s), 10 * acc + DigitValue(Head(s)))

\* a string of four hyphen-separated fields whose second is a decimal integer
HyphenForm(s) ==
    /\ Cardinality(Hyphens(s)) = 3
    /\ Field(s, 2) # <<>>
    /\ \A i \in DOMAIN Field(s, 2) : Field(s, 2)[i] \in Digits

\* C10: parse_variant_string on C-P-R-A with P a decimal integer succeeds with
\* the four fields, P as an integer, name and original_string the input and
\* parsed_format the variant_format, does not consult the library parser, and
\* gives the same fields for every variant_format.
C10_HyphenForm ==
    (op = "parse_variant_string" /\ HyphenForm(args.variant_string)) =>
        LET s == args.variant_string
        IN /\ env.success
           /\ env.result.chromosome = Field(s, 1)
           /\ env.result.position = Decimal(Field(s, 2), 0)
           /\ env.result.reference_bases = Field(s, 3)
           /\ env.result.alternate_bases = Field(s, 4)
           /\ env.result.name = s
           /\ env.original_string = s
           /\ env.result.parsed_format = args.variant_format
           /\ parsed = <<>>
           /\ \A f \in VariantFormats :
                 LET other == parse_variant_string(s, f, library)
                 IN /\ other.parsed = <<>>
                    /\ other.env.success
                    /\ other.env.result.parsed_format = f
                    /\ [other.env.result EXCEPT !.parsed_format = args.variant_format]
                           = env.result

\* a string with a two-digit position and an empty field was parsed under a
\* format name the code does not know
C10_Witness ==
    /\ op = "parse_variant_string"
    /\ args.variant_string = <<":", "-", "1", "1", "-", "-", "1">>
    /\ args.variant_format = "bogus"
    /\ env.success
    /\ env.result.chromosome = <<":">>
    /\ env.result.position = 11
    /\ env.result.reference_bases = <<>>
    /\ parsed = <<>>

----------------------------------------------------------------------------
(* Properties of main.                                                      *)

\* the AlphaGenomeClient method a command corresponds to
MethodOf(command) == IF command = "get_metadata" THEN "get_output_metadata" ELSE command

\* the arguments the error message of a command's branch names as required
RequiredArgs(command) ==
    CASE command \in {"predict_sequence", "get_sequence_info"} -> {"sequence"}
      [] command \in {"predict_interval", "score_interval"} -> {"chromosome", "start", "end"}
      [] command \in {"predict_variant", "score_variant"} ->
            {"chromosome", "position", "ref", "alt", "interval_start", "interval_end"}
      [] command = "predict_sequences" -> {"sequences"}
      [] command \in {"predict_intervals", "score_intervals"} -> {"intervals"}
      [] command \in {"predict_variants", "score_variants", "rank_variants_by_impact"} ->
            {"variants", "interval"}
      [] command = "score_ism_variants" ->
            {"chromosome", "start", "end", "ism_chromosome", "ism_start", "ism_end"}
      [] command = "parse_variant_string" -> {"variant_string"}
      [] command = "validate_genomic_data" -> {"data_type", "data"}
      [] command = "calculate_genomic_overlap" -> {"interval1", "interval2"}
      [] command = "analyze_gene_region" -> {"gene_symbol"}
      [] command = "compare_sequences" -> {"sequence1", "sequence2"}
      [] OTHER -> {}

\* argument d was given to the run, with a value that is not empty and, where
\* JSON is expected, is JSON
Given(a, d) ==
    /\ d \in DOMAIN a
    /\ a[d] # PyNone
    /\ (a[d].t \in {"str", "name", "json"} => Truthy(a[d]))
    /\ (a[d].t = "json" => a[d].text = "valid")

\* argument d is missing from the run
Missing(a, d) == d \notin DOMAIN a \/ a[d] = PyNone

\* the run has ended
Done == mpc = "done"

\* the run had a key and the service client could not be created
CreateFailed == client = "none" /\ raised.cls \in ExtErrors /\ "what" \notin DOMAIN raised.msg

\* C2: a run of main with a non-empty API key and the arguments its command
\* requires reaches the command's method and prints the envelope it returned.
C2_EveryCommandUsable ==
    (/\ Done
     /\ Given(argv, "api_key")
     /\ \A d \in RequiredArgs(argv.command) : Given(argv, d)
     /\ ~CreateFailed)
    => /\ op = MethodOf(argv.command)
       /\ stdout = <<env>>

\* the same for the commands other than the three whose branch reads an option
\* the parser does not define
UsableCommands ==
    (/\ Done
     /\ argv.command \notin {"parse_variant_string", "validate_genomic_data",
                             "calculate_genomic_overlap"}
     /\ Given(argv, "api_key")
     /\ \A d \in RequiredArgs(argv.command) : Given(argv, d)
     /\ ~CreateFailed)
    => /\ op = MethodOf(argv.command)
       /\ stdout = <<env>>

\* C7: a run that gets past the parsing of the command line prints exactly one
\* document: the envelope the dispatched operation returned, or a failure
\* envelope with 'success' false, 'error' and 'type'.
C7_ExactlyOneDocument ==
    /\ Len(stdout) <= 1
    /\ (Done /\ exitStatus # 2) =>
          /\ Len(stdout) = 1
          /\ \/ (op # "none" /\ raised = NoExc /\ stdout[1] = env)
             \/ /\ op = "none"
                /\ raised # NoExc
                /\ DOMAIN stdout[1] = {"success", "error", "type"}
                /\ stdout[1].success = FALSE
    /\ (~Done => stdout = <<>>)

\* a run printed the failure envelope of text that is no JSON
C7_Witness ==
    /\ Done
    /\ argv.command = "score_intervals"
    /\ raised = JsonError
    /\ stdout = <<Failure(JsonError.msg, "JSONDecodeError")>>
    /\ exitStatus = 1

\* C8: when an argument its command requires is missing, a run calls no
\* operation, prints a ValueError failure envelope whose message names the
\* required arguments and the command, and exits with status 1.
C8_MissingArgumentIsValueError ==
    (/\ Done
     /\ exitStatus # 2
     /\ Given(argv, "api_key")
     /\ ~CreateFailed
     /\ \E d \in RequiredArgs(argv.command) : Missing(argv, d))
    => /\ op = "none"
       /\ ncalls = 0
       /\ raised.cls = "ValueError"
       /\ DOMAIN raised.msg = {"what", "command"}
       /\ raised.msg.command = argv.command
       /\ stdout = <<Failure(raised.msg, "ValueError")>>
       /\ exitStatus = 1

\* the same for the commands other than the three whose branch reads an option
\* the parser does not define
MissingArgumentElsewhere ==
    (/\ Done
     /\ exitStatus # 2
     /\ argv.command \notin {"parse_variant_string", "validate_genomic_data",
                             "calculate_genomic_overlap"}
     /\ Given(argv, "api_key")
     /\ ~CreateFailed
     /\ \E d \in RequiredArgs(argv.command) : Missing(argv, d))
    => /\ op = "none"
       /\ ncalls = 0
       /\ raised.cls = "ValueError"
       /\ DOMAIN raised.msg = {"what", "command"}
       /\ raised.msg.command = argv.command
       /\ stdout = <<Failure(raised.msg, "ValueError")>>
       /\ exitStatus = 1

\* C9: no operation is dispatched and no call is made on the service before an
\* AlphaGenomeClient has been constructed with a non-empty key; a run with an
\* empty key prints the failure envelope of 'API key is required' and exits
\* with status 1 without dispatching, whatever the command.
C9_NoDispatchWithoutClient ==
    /\ (op # "none" \/ ncalls > 0 \/ extCalls # <<>> \/ mpc \in {"dispatch", "print"})
          => (client = "created" /\ Truthy(argv.api_key))
    /\ (Done /\ exitStatus # 2 /\ ~Truthy(argv.api_key)) =>
          /\ op = "none"
          /\ ncalls = 0
          /\ client = "none"
          /\ stdout = <<Failure([text |-> "API key is required"], "ValueError")>>
          /\ exitStatus = 1

\* a run of a command that needs no service call ended on the empty key
C9_Witness ==
    /\ Done
    /\ exitStatus = 1
    /\ argv.command = "get_supported_outputs"
    /\ argv.api_key = PyName("")
    /\ op = "none"
    /\ stdout = <<Failure([text |-> "API key is required"], "ValueError")>>

----------------------------------------------------------------------------
(* Properties of validate_genomic_data.                                     *)

\* validate_genomic_data has returned for data type t
Validated(t) == op = "validate_genomic_data" /\ args.data_type = t

\* dict d has key k with a value that is not null
Present(d, k) == k \in DOMAIN d /\ d[k] # PyNone

\* dict d has a non-empty chromosome
HasChromosome(d) == "chromosome" \in DOMAIN d /\ d.chromosome # ""

\* message m is among the errors of the envelope
Reports(m) == \E i \in DOMAIN env.result.errors : env.result.errors[i] = m

\* C11: for an interval, valid is true exactly when the chromosome is non-empty,
\* start and end are present and 1 <= start < end, and each violated condition
\* has its own message among the errors.
C11_IntervalValidation ==
    Validated("interval") =>
        LET d == args.data
            both == Present(d, "start") /\ Present(d, "end")
        IN /\ env.success
           /\ env.result.valid =
                 (HasChromosome(d) /\ both /\ 1 <= d.start.v /\ d.start.v < d.end.v)
           /\ Reports("Chromosome is required") = ~HasChromosome(d)
           /\ Reports("Start and end positions are required") = ~both
           /\ Reports("End position must be greater than start position")
                 = (both /\ d.end.v <= d.start.v)
           /\ Reports("Start position must be positive")
                 = (both /\ d.start.v < 1)

\* the part of C11 about valid alone
IntervalValidity ==
    Validated("interval") =>
        LET d == args.data
            both == Present(d, "start") /\ Present(d, "end")
        IN /\ env.success
           /\ env.result.valid =
                 (HasChromosome(d) /\ both /\ 1 <= d.start.v /\ d.start.v < d.end.v)

\* a non-empty string of A, T, G, C in either case
IsAllele(x) == x # <<>> /\ \A i \in DOMAIN x : x[i] \in {"A", "T", "G", "C", "a", "t", "g", "c"}

\* C12: for a variant, valid is true exactly when the chromosome is non-empty,
\* position is present and at least 1, and ref and alt are non-empty strings of
\* A, T, G, C in either case; a missing position gives the error 'Position must
\* be a positive integer' in a success envelope.
C12_VariantValidation ==
    Validated("variant") =>
        LET d == args.data
        IN /\ env.success
           /\ env.result.valid =
                 (/\ HasChromosome(d)
                  /\ Present(d, "position") /\ d.position.v >= 1
                  /\ "ref" \in DOMAIN d /\ IsAllele(d.ref)
                  /\ "alt" \in DOMAIN d /\ IsAllele(d.alt))
           /\ (~Present(d, "position") => Reports("Position must be a positive integer"))

\* a variant whose alternate allele is N was found invalid, with no position
C12_Witness ==
    /\ Validated("variant")
    /\ args.data = [chromosome |-> "chr1", ref |-> <<"A">>, alt |-> <<"n">>]
    /\ env.success
    /\ ~env.result.valid
    /\ env.result.errors = <<"Position must be a positive integer",
                              "Alternate allele contains invalid characters">>

\* the length of a sequence value and whether all its characters are DNA letters
SeqLength(x) == IF x.t = "runs" THEN RunsLen(x.v) ELSE Len(x.v)

AllDna(x) == \A i \in DOMAIN x.v : (IF x.t = "runs" THEN x.v[i].c ELSE x.v[i]) \in DnaLetters

\* C13: for a sequence, valid is true exactly when the sequence is non-empty and
\* all its characters are A, T, G, C, N in either case; there is a warning
\* exactly when the sequence is non-empty and its length is none of the five
\* supported ones, whatever valid is.
C13_SequenceValidation ==
    Validated("sequence") =>
        LET d == args.data
            nonempty == "sequence" \in DOMAIN d /\ SeqLength(d.sequence) > 0
        IN /\ env.success
           /\ env.result.valid = (nonempty /\ AllDna(d.sequence))
           /\ (env.result.warnings # <<>>) =
                 (nonempty /\ SeqLength(d.sequence)
                                 \notin {2048, 16384, 131072, 524288, 1048576})

\* a sequence of a supported length with a letter that is no base: invalid, and
\* no warning
C13_Witness ==
    /\ Validated("sequence")
    /\ args.data = [sequence |-> PyRuns(<<[c |-> "a", n |-> 2047], [c |-> "X", n |-> 1]>>)]
    /\ ~env.result.valid
    /\ env.result.warnings = <<>>

----------------------------------------------------------------------------
(* Properties of get_sequence_info.                                         *)

\* the upper-case letter a character of a sequence value stands for
Letter(x, i) == UpperChar(IF x.t = "runs" THEN x.v[i].c ELSE x.v[i])

\* the number of times base b occurs in the upper-cased sequence value x
RECURSIVE Occurrences(_, _, _)
Occurrences(x, b, i) ==
    IF i = 0 THEN 0
    ELSE (IF Letter(x, i) = b THEN (IF x.t = "runs" THEN x.v[i].n ELSE 1) ELSE 0)
         + Occurrences(x, b, i - 1)

\* C14: on a non-empty sequence get_sequence_info counts each of A, T, G, C, N
\* in the upper-cased sequence; the counts sum to at most the length, to the
\* length exactly when is_valid, and is_valid holds exactly when there are no
\* invalid characters; on an empty sequence it fails with ValueError.
C14_BaseCounts ==
    op = "get_sequence_info" =>
        IF args.sequence = PyNone \/ SeqLength(args.sequence) = 0
        THEN ~env.success /\ env.type = "ValueError"
        ELSE LET x == args.sequence
                 counts == env.result.base_counts
                 total == counts["A"] + counts["T"] + counts["G"] + counts["C"] + counts["N"]
             IN /\ env.success
                /\ DOMAIN counts = {"A", "T", "G", "C", "N"}
                /\ \A b \in DOMAIN counts : counts[b] = Occurrences(x, b, Len(x.v))
                /\ env.result.length = SeqLength(x)
                /\ total <= env.result.length
                /\ (total = env.result.length) = env.result.is_valid
                /\ env.result.is_valid = (env.result.invalid_characters = {})

\* a lower-case base was counted and a letter that is no base was not
C14_Witness ==
    /\ op = "get_sequence_info"
    /\ args.sequence = PyStr(<<"c", "X">>)
    /\ env.success
    /\ env.result.base_counts["C"] = 1
    /\ ~env.result.is_valid
    /\ env.result.invalid_characters = {"X"}

\* the five supported lengths
FiveLengths == {2048, 16384, 131072, 524288, 1048576}

\* C19: closest_supported_length is one of the five supported lengths, none of
\* which is nearer to the length, and none that is as near is smaller;
\* is_supported_length holds exactly when the length is one of the five, which
\* is exactly when closest_supported_length equals the length.
C19_ClosestSupportedLength ==
    (op = "get_sequence_info" /\ env.success) =>
        LET length == env.result.length
            closest == env.result.closest_supported_length
        IN /\ length = SeqLength(args.sequence)
           /\ closest \in FiveLengths
           /\ \A x \in FiveLengths :
                 /\ Abs(closest - length) <= Abs(x - length)
                 /\ (Abs(closest - length) = Abs(x - length) => closest <= x)
           /\ env.result.is_supported_length = (length \in FiveLengths)
           /\ env.result.is_supported_length = (closest = length)

\* a length half-way between two supported lengths got the smaller one
C19_Witness ==
    /\ op = "get_sequence_info"
    /\ env.success
    /\ env.result.length = 9216
    /\ env.result.closest_supported_length = 2048
    /\ ~env.result.is_supported_length

----------------------------------------------------------------------------
(* Properties of calculate_genomic_overlap.                                 *)

\* a percentage kept as a fraction lies in (0, 100]
InPercentRange(p) == p.den > 0 /\ 0 < p.num /\ p.num <= 100 * p.den

\* what a successful result r says about the intervals a and b
OverlapResult(a, b, r) ==
    /\ (a.chromosome # b.chromosome) => ~r.overlaps
    /\ ("intersection" \in DOMAIN r) => r.overlaps
    /\ ("overlap_stats" \in DOMAIN r) => r.overlaps
    /\ ("overlap_stats" \in DOMAIN r) = ("intersection" \in DOMAIN r)
    /\ ("overlap_stats" \in DOMAIN r) =>
          LET stats == r.overlap_stats
              intersection == r.intersection
          IN /\ stats.overlap_length = intersection.end - intersection.start + 1
             /\ intersection.length = stats.overlap_length
             /\ stats.interval1_length = a.end - a.start + 1
             /\ stats.interval2_length = b.end - b.start + 1
             /\ 1 <= stats.overlap_length
             /\ stats.overlap_length <= Min(stats.interval1_length, stats.interval2_length)
             /\ InPercentRange(stats.overlap_percentage_int1)
             /\ InPercentRange(stats.overlap_percentage_int2)
             /\ (a = b) =>
                   /\ stats.overlap_percentage_int1.num = 100 * stats.overlap_percentage_int1.den
                   /\ stats.overlap_percentage_int2.num = 100 * stats.overlap_percentage_int2.den

----------------------------------------------------------------------------
(* Properties of the batch operations.                                      *)

\* a list in the opposite order
Reversed(l) == [i \in DOMAIN l |-> l[Len(l) + 1 - i]]

\* C15: in a successful rank_variants_by_impact every scored variant has an
\* impact_category taken from its scores, and the rank of a variant goes with
\* its scores and not with its place in the input: the same variants with the
\* same scores given in the opposite order keep their ranks.
C15_RankedByScore ==
    (op = "rank_variants_by_impact" /\ env.success) =>
        LET ranked == env.result.ranked_variants
            n == Len(args.variants)
        IN /\ \A i \in DOMAIN ranked :
                 ranked[i].scores # PyNone => ranked[i].impact_category # "unknown"
           /\ \A ext \in ExtOutcomes(ListsUpTo(Scores, MaxBatch)) :
                 (/\ ext.call = "ok"
                  /\ Len(ext.out) = n
                  /\ rank_variants_by_impact(args.variants, args.interval, args.organism,
                                             args.ranking_metric, ext, library).env = env
                  /\ \A i, j \in DOMAIN ranked :
                        i # j => /\ ranked[i].variant # ranked[j].variant
                                 /\ ranked[i].scores # ranked[j].scores) =>
                     LET other == rank_variants_by_impact(
                                      Reversed(args.variants), args.interval, args.organism,
                                      args.ranking_metric,
                                      [call |-> "ok", out |-> Reversed(ext.out)], library).env
                     IN /\ other.success
                        /\ \A i \in DOMAIN ranked :
                              /\ other.result.ranked_variants[n + 1 - i].variant
                                     = ranked[i].variant
                              /\ other.result.ranked_variants[n + 1 - i].scores
                                     = ranked[i].scores
                              /\ other.result.ranked_variants[n + 1 - i].rank = ranked[i].rank

\* a sequences argument every element of which passes predict_sequence's check
AllSequencesValid(x) ==
    x.t = "list" /\ x.v # <<>> /\ \A i \in DOMAIN x.v : IsDna(x.v[i])

\* C16: predict_sequences calls the service only for a non-empty list of
\* non-empty strings of A, T, G, C, N; for any other argument it makes no call
\* and returns a failure envelope.
C16_BatchValidated ==
    op = "predict_sequences" =>
        /\ (extCalls # <<>> => AllSequencesValid(args.sequences))
        /\ (~AllSequencesValid(args.sequences) => extCalls = <<>> /\ ~env.success)

----------------------------------------------------------------------------
(* Properties of parse_variant_string on strings that are not of the        *)
(* hyphen form.                                                             *)

\* the positions of the colons of a string
Colons(s) == {i \in DOMAIN s : s[i] = ":"}

\* the k-th of the four fields of a string with three colons
ColonField(s, k) ==
    LET h == Colons(s)
        from == IF k = 1 THEN 1
                ELSE 1 + CHOOSE i \in h : Cardinality({j \in h : j < i}) = k - 2
        to == IF k = 4 THEN Len(s)
              ELSE (CHOOSE i \in h : Cardinality({j \in h : j < i}) = k - 1) - 1
    IN SubSeq(s, from, to)

\* a string of four colon-separated fields whose second is a decimal integer
ColonForm(s) ==
    /\ Cardinality(Colons(s)) = 3
    /\ ColonField(s, 2) # <<>>
    /\ \A i \in DOMAIN ColonField(s, 2) : ColonField(s, 2)[i] \in Digits

\* C17: parse_variant_string on C:P:R:A with P a decimal integer succeeds with
\* the four colon-separated fields, P as an integer, and does not consult the
\* library parser, whether or not a field contains a hyphen.
C17_ColonForm ==
    (op = "parse_variant_string" /\ ColonForm(args.variant_string)) =>
        LET s == args.variant_string
        IN /\ env.success
           /\ env.result.chromosome = ColonField(s, 1)
           /\ env.result.position = Decimal(ColonField(s, 2), 0)
           /\ env.result.reference_bases = ColonField(s, 3)
           /\ env.result.alternate_bases = ColonField(s, 4)
           /\ parsed = <<>>

\* the library format a variant_format of the model names
ExpectedFormat(variant_format) ==
    IF variant_format \in {"gnomad", "Gnomad", "GNOMAD"} THEN "GNOMAD" ELSE "DEFAULT"

\* C18: on a string that is of neither manual form parse_variant_string
\* consults the library parser, once, with the string and the format that
\* variant_format names in any case (DEFAULT for an unknown name); a success
\* envelope echoes variant_format in parsed_format.
C18_LibraryFallback ==
    (/\ op = "parse_variant_string"
     /\ ~HyphenForm(args.variant_string)
     /\ ~ColonForm(args.variant_string)) =>
        /\ parsed = <<[string |-> args.variant_string,
                       format |-> ExpectedFormat(args.variant_format)]>>
        /\ (env.success => env.result.parsed_format = args.variant_format)

====
